---- MODULE Spec2Model ----
(***************************************************************************)
(* Retrieval filtering, scoring and rank-mass selection of the semantic    *)
(* search engine: DBSemanticSearchController.search_with_options, the      *)
(* metadata expression matcher, the query-template filter, the document    *)
(* statistics and the rank-mass selection used by the generative answer.   *)
(***************************************************************************)
EXTENDS Integers, Sequences, FiniteSets, TLC

VARIABLES
    documents,      \* Document rows of the collection (name -> record)
    search_params,  \* the search_params dict of one search_with_options call
    user_query,     \* the UserQuery row: [present, query_templates]
    search_pc,      \* "call" before search_with_options ran, "done" after
    search_out,     \* what search_with_options did: outcome and search() arguments
    raw_hits,       \* postgres_docs: the hits handed to prepare_documents_stats
    stats_pc,       \* "hits" -> "stats" -> "answered"
    doc_stats,      \* [err, names, stats]: result of prepare_documents_stats
    gen_out         \* what the generative answer did: path, which_docs, texts

vars == <<documents, search_params, user_query, search_pc, search_out,
          raw_hits, stats_pc, doc_stats, gen_out>>

(***************************************************************************)
(* Python values. A value is a tagged record; a dict is a sequence of      *)
(* <<key, value>> pairs in insertion order, a list a sequence of values.   *)
(***************************************************************************)
NoneV == [t |-> "none", v |-> 0]
S(x) == [t |-> "str", v |-> x]
I(n) == [t |-> "int", v |-> n]
L(xs) == [t |-> "list", v |-> xs]
D(kvs) == [t |-> "dict", v |-> kvs]

\* The characters of every string the model uses (str is a sequence of chars).
Chars(s) ==
    CASE s = "" -> <<>>
      [] s = "a" -> <<"a">>
      [] s = "e" -> <<"e">>
      [] s = "k" -> <<"k">>
      [] s = "ak" -> <<"a", "k">>
      [] s = "ka" -> <<"k", "a">>
      [] s = "event" -> <<"e", "v", "e", "n", "t">>
      [] s = "address" -> <<"a", "d", "d", "r", "e", "s", "s">>
      [] s = "other" -> <<"o", "t", "h", "e", "r">>
      [] s = "type" -> <<"t", "y", "p", "e">>
      [] s = "geo" -> <<"g", "e", "o">>
      [] s = "city" -> <<"c", "i", "t", "y">>
      [] s = "labels" -> <<"l", "a", "b", "e", "l", "s">>
      [] s = "year" -> <<"y", "e", "a", "r">>
      [] s = "sport/a" -> <<"s", "p", "o", "r", "t", "/", "a">>
      [] s = "sport/b" -> <<"s", "p", "o", "r", "t", "/", "b">>
      [] s = "news/a" -> <<"n", "e", "w", "s", "/", "a">>
      [] s = "sport" -> <<"s", "p", "o", "r", "t">>
      [] s = "/a" -> <<"/", "a">>
      [] s = "zzz" -> <<"z", "z", "z">>
      [] s = "eq" -> <<"e", "q">>
      [] s = "operator" -> <<"o", "p", "e", "r", "a", "t", "o", "r">>

\* Python `text in string`: text occurs as a contiguous substring.
StrContains(text, string) ==
    LET t == Chars(text)
        p == Chars(string)
    IN  \E i \in 0..(Len(p) - Len(t)) : SubSeq(p, i + 1, i + Len(t)) = t

DictHas(d, k) == \E i \in 1..Len(d.v) : d.v[i][1] = k
DictGet(d, k) == d.v[CHOOSE i \in 1..Len(d.v) : d.v[i][1] = k][2]

RECURSIVE PyEq(_, _)
\* Python `a == b` on JSON values: values of different types differ, lists
\* are equal element by element, dicts key by key in any order.
PyEq(a, b) ==
    IF a.t # b.t THEN FALSE
    ELSE CASE a.t \in {"none", "str", "int"} -> a.v = b.v
           [] a.t = "list" ->
                 /\ Len(a.v) = Len(b.v)
                 /\ \A i \in 1..Len(a.v) : PyEq(a.v[i], b.v[i])
           [] a.t = "dict" ->
                 /\ Len(a.v) = Len(b.v)
                 /\ \A i \in 1..Len(a.v) :
                       /\ DictHas(b, a.v[i][1])
                       /\ PyEq(a.v[i][2], DictGet(b, a.v[i][1]))

ListHas(l, x) == \E i \in 1..Len(l.v) : PyEq(l.v[i], x)
SeqToSet(xs) == {xs[i] : i \in 1..Len(xs)}

\* Code-point order of the characters used (str comparison is lexicographic).
Alphabet == <<"/", "a", "b", "c", "d", "e", "g", "h", "i", "k", "l", "n", "o",
              "p", "q", "r", "s", "t", "v", "w", "y", "z">>
CharRank(c) == CHOOSE i \in 1..Len(Alphabet) : Alphabet[i] = c

RECURSIVE SeqLess(_, _)
SeqLess(a, b) ==
    IF Len(b) = 0 THEN FALSE
    ELSE IF Len(a) = 0 THEN TRUE
    ELSE IF CharRank(a[1]) # CharRank(b[1]) THEN CharRank(a[1]) < CharRank(b[1])
    ELSE SeqLess(Tail(a), Tail(b))

StrLess(a, b) == SeqLess(Chars(a), Chars(b))

RECURSIVE PyLess(_, _)
\* Python `a < b`: "T"/"F", or "E" for the TypeError of unordered operand
\* types. Lists compare by their first differing elements, then by length.
PyLess(a, b) ==
    CASE a.t # b.t \/ a.t \in {"none", "dict"} -> "E"
      [] a.t = "int" /\ b.t = "int" -> IF a.v < b.v THEN "T" ELSE "F"
      [] a.t = "str" /\ b.t = "str" -> IF StrLess(a.v, b.v) THEN "T" ELSE "F"
      [] a.t = "list" /\ b.t = "list" ->
            IF Len(b.v) = 0 THEN "F"
            ELSE IF Len(a.v) = 0 THEN "T"
            ELSE IF PyEq(a.v[1], b.v[1])
                 THEN PyLess([t |-> "list", v |-> Tail(a.v)],
                             [t |-> "list", v |-> Tail(b.v)])
                 ELSE PyLess(a.v[1], b.v[1])

PyNot(r) == IF r = "E" THEN "E" ELSE IF r = "T" THEN "F" ELSE "T"
PyBool(b) == IF b THEN "T" ELSE "F"

\* Python `x in container`.
PyIn(x, container) ==
    CASE container.t = "list" -> PyBool(ListHas(container, x))
      [] container.t = "str" ->
            IF x.t = "str" THEN PyBool(StrContains(x.v, container.v)) ELSE "E"
      [] container.t = "dict" ->
            IF x.t \in {"list", "dict"} THEN "E"
            ELSE PyBool(x.t = "str" /\ DictHas(container, x.v))
      [] container.t \in {"int", "none"} -> "E"

\* Python list(x) for a value that is not a list: the characters of a str, the
\* keys of a dict; an int or None is not iterable (<<FALSE, _>>).
PyListOf(x) ==
    CASE x.t = "list" -> <<TRUE, x.v>>
      [] x.t = "str" -> <<TRUE, [i \in 1..Len(Chars(x.v)) |-> S(Chars(x.v)[i])]>>
      [] x.t \in {"int", "none", "dict"} -> <<FALSE, <<>>>>

Hashable(x) == x.t \notin {"list", "dict"}

\* str.lower().strip() on the operator names the model uses.
LowerStrip(op) ==
    CASE op \in {"EQ", " eq ", "eq"} -> "eq"
      [] op \in {"GTE", " gte ", "gte"} -> "gte"
      [] op \in {"in", "ne", "gt", "lt", "ge", "le", "lte", "hse", "xx"} -> op

POSSIBLE_OPERATORS == {"in", "eq", "ne", "gt", "lt", "gte", "lte", "hse"}

\* DBSemanticSearchController.__check_expression_operator_value
CheckExpressionOperatorValue(expr_operator, expr_value, metadata_value) ==
    LET op == LowerStrip(expr_operator)
    IN  CASE op = "in" -> PyIn(expr_value, metadata_value)
          [] op = "eq" -> PyBool(PyEq(expr_value, metadata_value))
          [] op = "ne" -> PyBool(~PyEq(expr_value, metadata_value))
          [] op = "gt" -> PyLess(metadata_value, expr_value)
          [] op = "lt" -> PyLess(expr_value, metadata_value)
          [] op = "ge" -> PyNot(PyLess(expr_value, metadata_value))
          [] op = "le" -> PyNot(PyLess(metadata_value, expr_value))
          [] op = "hse" ->
                IF expr_value.t = "dict" \/ metadata_value.t = "dict" THEN "F"
                ELSE LET ev == PyListOf(expr_value)
                         mv == IF metadata_value.t = "list" THEN metadata_value.v
                               ELSE <<metadata_value>>
                     IN  IF ~ev[1] THEN "E"
                         ELSE IF \/ \E i \in 1..Len(ev[2]) : ~Hashable(ev[2][i])
                                 \/ \E j \in 1..Len(mv) : ~Hashable(mv[j])
                              THEN "E"
                         ELSE PyBool(\E i \in 1..Len(ev[2]), j \in 1..Len(mv) :
                                         PyEq(ev[2][i], mv[j]))
          [] OTHER -> "F"

\* DBSemanticSearchController.__is_properly_matched_expression_with_metadata:
\* only the first key of expr_dict decides (every branch of the loop returns).
RECURSIVE IsProperlyMatchedExpressionWithMetadata(_, _, _)
IsProperlyMatchedExpressionWithMetadata(expr_operator, expr_dict, metadata_dict) ==
    IF expr_dict.t # "dict" THEN "E"
    ELSE IF Len(expr_dict.v) = 0 THEN "F"
    ELSE LET k == expr_dict.v[1][1]
             v == expr_dict.v[1][2]
             has == PyIn(S(k), metadata_dict)
         IN  IF has # "T" THEN has
             ELSE IF metadata_dict.t # "dict" THEN "E"
             ELSE IF v.t = "dict"
                  THEN IsProperlyMatchedExpressionWithMetadata(
                           expr_operator, v, DictGet(metadata_dict, k))
                  ELSE CheckExpressionOperatorValue(
                           expr_operator, v, DictGet(metadata_dict, k))

\* DBSemanticSearchController.__is__proper__expression
IsProperExpression(expression) ==
    /\ expression.operator # NoneV
    /\ expression.field # NoneV
    /\ expression.operator.t = "str"
    /\ expression.operator.v \in POSSIBLE_OPERATORS

\* DBSemanticSearchController.__is_document_covered_with_metadata_expression;
\* "E" is the exception that leaves it (the failed assert included).
IsDocumentCoveredWithMetadataExpression(document, expression) ==
    IF document.metadata_json = NoneV \/ Len(document.metadata_json.v) = 0 THEN "F"
    ELSE IF ~IsProperExpression(expression) THEN "E"
    ELSE IsProperlyMatchedExpressionWithMetadata(
             expression.operator.v, expression.field, document.metadata_json)


(***************************************************************************)
(* The catalog: Document rows of the collection and QueryTemplate rows.    *)
(***************************************************************************)
Today == 100
\* dateutil.parser.isoparse on the date strings of the catalog: a day number,
\* or -1 when the string does not parse (ValueError).
IsoParse(s) ==
    CASE s = "2999-01-01" -> 200
      [] s = "2000-01-01" -> 50
      [] s = "today" -> Today
      [] OTHER -> 0 - 1

\* int('...') inside an evaluated rule: <<ok, value>>.
IntOf(s) ==
    CASE s = "2020" -> <<TRUE, 2020>>
      [] s = "1990" -> <<TRUE, 1990>>
      [] OTHER -> <<FALSE, 0>>

Doc(name, category, relative_path, use_in_search, metadata_json) ==
    [name |-> name, category |-> category, relative_path |-> relative_path,
     use_in_search |-> use_in_search, metadata_json |-> metadata_json]

DocX == Doc("x", "Sport", "sport/a", TRUE,
            D(<< <<"type", S("event")>>,
                 <<"date", D(<< <<"end", S("2999-01-01")>> >>)>>,
                 <<"labels", L(<<S("k"), S("a")>>)>>,
                 <<"year", S("2020")>> >>))
DocY == Doc("y", "Sport", "sport/b", TRUE,
            D(<< <<"type", S("event")>>,
                 <<"date", D(<< <<"end", S("2000-01-01")>> >>)>>,
                 <<"labels", L(<<S("a")>>)>>,
                 <<"year", S("1990")>> >>))
DocZ == Doc("z", "News", "news/a", TRUE,
            D(<< <<"type", S("address")>>,
                 <<"geo", D(<< <<"city", S("k")>> >>)>>,
                 <<"labels", S("ak")>> >>))
DocU == Doc("u", "Sport", "sport/b", FALSE,
            D(<< <<"type", S("event")>>,
                 <<"date", D(<< <<"end", S("2999-01-01")>> >>)>>,
                 <<"labels", L(<<S("k")>>)>>,
                 <<"year", S("2020")>> >>))

\* Rows in primary-key order.
Catalog == <<DocX, DocY, DocZ, DocU>>
DocNames == {"x", "y", "z", "u"}

UserOrganisation == "org1"

Template(id, organisation, data_connector, data_filter_expressions, system_prompt) ==
    [id |-> id, organisation |-> organisation, data_connector |-> data_connector,
     data_filter_expressions |-> data_filter_expressions,
     system_prompt |-> system_prompt]

\* A rule of data_filter_expressions is a Python expression over the substituted
\* value; the model names the rules it uses.
RuleYearGe2000 == S("int('VALUE') >= 2000")

QueryTemplates ==
    << Template(1, "org1", D(<< <<"type", S("event")>> >>), NoneV, S("prompt-1")),
       Template(2, "org1", D(<< <<"type", S("event")>> >>),
                D(<< <<"year", RuleYearGe2000>> >>), S("  ")),
       Template(3, "org2", D(<< <<"type", S("address")>> >>), NoneV, S("prompt-3")),
       Template(4, "org1", D(<< <<"type", S("address")>> >>), NoneV, NoneV),
       Template(5, "org1", D(<< <<"type", S("other")>> >>), NoneV, S("prompt-5")),
       Template(6, "org1", D(<<>>),
                D(<< <<"year", RuleYearGe2000>>, <<"zzz", RuleYearGe2000>> >>), NoneV),
       Template(7, "org1", D(<<>>), D(<< <<"zzz", RuleYearGe2000>> >>), NoneV),
       Template(8, "org1", D(<<>>),
                D(<< <<"date", D(<< <<"end", D(<<>>)>> >>)>> >>), NoneV),
       Template(9, "org1", D(<<>>),
                D(<< <<"geo", D(<< <<"year", RuleYearGe2000>> >>)>> >>), NoneV),
       Template(10, "org1", D(<<>>), D(<< <<"labels", RuleYearGe2000>> >>), NoneV) >>

\* An id that is not a number: QueryTemplate.objects.get raises ValueError.
\* Rows have positive ids.
MalformedTemplateId == 0

\* An id that is a list or a dict: the conversion to int inside
\* QueryTemplate.objects.get raises TypeError.
NonScalarTemplateId == 0 - 1

\* get_template_by_id catches DoesNotExist and ValueError only.
GetTemplateByIdRaises(template_id) == template_id = NonScalarTemplateId

\* QueryTemplateController.get_template_by_id: NoneV for an unknown id, a
\* malformed id or a template of another organisation.
GetTemplateById(organisation, template_id) ==
    IF template_id = MalformedTemplateId THEN NoneV
    ELSE IF \E i \in 1..Len(QueryTemplates) : QueryTemplates[i].id = template_id
    THEN LET qt == QueryTemplates[CHOOSE i \in 1..Len(QueryTemplates) :
                                      QueryTemplates[i].id = template_id]
         IN  IF qt.organisation # organisation THEN NoneV ELSE qt
    ELSE NoneV

RECURSIVE DropNone(_)
\* The elements of a sequence that are not None, in order.
DropNone(xs) ==
    IF Len(xs) = 0 THEN <<>>
    ELSE IF xs[1] = NoneV THEN DropNone(Tail(xs))
    ELSE <<xs[1]>> \o DropNone(Tail(xs))

\* prepare_templates_for_user does not catch what get_template_by_id raises.
PrepareTemplatesRaises(templates) ==
    \E i \in 1..Len(templates) : GetTemplateByIdRaises(templates[i])

\* QueryTemplateController.prepare_templates_for_user
PrepareTemplatesForUser(organisation, templates) ==
    DropNone([i \in 1..Len(templates) |->
                 GetTemplateById(organisation, templates[i])])


(***************************************************************************)
(* Template matching: QueryTemplatesSearchGrammar, QueryTemplateFilterer,  *)
(* QueryTemplateController.filter_documents.                               *)
(***************************************************************************)
\* dict.get(key, default) on a metadata value that must be a dict:
\* <<ok, value>>, ok = FALSE for the AttributeError of a non-dict receiver.
PyGet(d, k, default) ==
    IF d.t # "dict" THEN <<FALSE, NoneV>>
    ELSE IF DictHas(d, k) THEN <<TRUE, DictGet(d, k)>> ELSE <<TRUE, default>>

\* Lines 174-176 with `>` in place of `>=`: an end date of today is refused.
EndDateIsOlderThanToday_StrictlyLater(d) ==
    IF d.metadata_json = NoneV \/ Len(d.metadata_json.v) = 0 THEN "F"
    ELSE LET document_date == PyGet(d.metadata_json, "date", D(<<>>))[2]
             end == PyGet(document_date, "end", S(""))
         IN  IF ~end[1] \/ end[2].t # "str" THEN "E"
             ELSE IF end[2].v = "" THEN "F"
             ELSE IF IsoParse(end[2].v) < 0 THEN "E"
             ELSE PyBool(IsoParse(end[2].v) > Today)

\* GrammarFunctions.__end_date_is_older_than_today: "T"/"F", "E" = it raised.
EndDateIsOlderThanToday(d) ==
    IF d.metadata_json = NoneV \/ Len(d.metadata_json.v) = 0 THEN "F"
    ELSE LET document_date == PyGet(d.metadata_json, "date", D(<<>>))[2]
             end == PyGet(document_date, "end", S(""))
         IN  IF ~end[1] \/ end[2].t # "str" THEN "E"
             ELSE IF end[2].v = "" THEN "F"
             ELSE IF IsoParse(end[2].v) < 0 THEN "E"
             ELSE PyBool(IsoParse(end[2].v) >= Today)

\* CONSTANT_TYPE_ACTIONS with the end-date action also among the search
\* actions of the address type.
SearchActionsOfType_AddressChecked(document_type) ==
    CASE document_type = S("event") -> <<TRUE, <<"end_date_older_than_today">>>>
      [] document_type = S("address") -> <<TRUE, <<"end_date_older_than_today">>>>
      [] document_type = S("other") -> <<TRUE, <<>>>>
      [] OTHER -> <<FALSE, <<>>>>

\* CONSTANT_TYPE_ACTIONS[type]["search"], <<known type, actions>>
SearchActionsOfType(document_type) ==
    CASE document_type = S("event") -> <<TRUE, <<"end_date_older_than_today">>>>
      [] document_type = S("address") -> <<TRUE, <<>>>>
      [] document_type = S("other") -> <<TRUE, <<>>>>
      [] OTHER -> <<FALSE, <<>>>>

\* QueryTemplatesSearchGrammar.use_document_in_sse with skip_if_any_problem=True:
\* an exception of the action is swallowed and the loop goes on.
GrammarUseDocumentInSse(d) ==
    IF d.metadata_json.t # "dict" THEN "E"
    ELSE LET document_type == PyGet(d.metadata_json, "type", NoneV)[2]
         IN  IF ~Hashable(document_type) THEN "E"
             ELSE LET actions == SearchActionsOfType(document_type)
                  IN  IF ~actions[1] THEN "F"
                      ELSE PyBool(\A i \in 1..Len(actions[2]) :
                                      EndDateIsOlderThanToday(d) # "F")

\* eval() of a rule with the document value substituted; an exception inside
\* eval counts as not accepted.
EvalRule(rule, doc_value) ==
    CASE rule = RuleYearGe2000 ->
            IntOf(doc_value.v)[1] /\ IntOf(doc_value.v)[2] >= 2000
      [] OTHER -> FALSE

\* The (expression, doc_value) pairs one entry of data_filter_expressions
\* yields: [err, pairs].
RulePairs(doc_metadata, var1, expr1) ==
    IF expr1.t = "dict"
    THEN IF /\ Len(expr1.v) > 0
            /\ \/ \E j \in 1..Len(expr1.v) : expr1.v[j][2].t = "dict"
               \/ DictGet(doc_metadata, var1).t # "dict"
         THEN [err |-> TRUE, pairs |-> <<>>]
         ELSE [err |-> FALSE,
               pairs |-> DropNone(
                   [j \in 1..Len(expr1.v) |->
                       IF PyGet(DictGet(doc_metadata, var1), expr1.v[j][1], NoneV)[2]
                              = NoneV
                       THEN NoneV
                       ELSE <<expr1.v[j][2],
                              DictGet(DictGet(doc_metadata, var1), expr1.v[j][1])>>])]
    ELSE [err |-> FALSE, pairs |-> << <<expr1, DictGet(doc_metadata, var1)>> >>]

RECURSIVE PairsLoop(_)
\* The loop over zip(expressions, doc_values): str.replace raises on a value
\* that is not a str, a rule that is not accepted ends the loop with False.
PairsLoop(pairs) ==
    IF Len(pairs) = 0 THEN "T"
    ELSE IF pairs[1][1].t # "str" \/ pairs[1][2].t # "str" THEN "E"
    ELSE IF ~EvalRule(pairs[1][1], pairs[1][2]) THEN "F"
    ELSE PairsLoop(Tail(pairs))

RECURSIVE FiltererLoop(_, _, _)
\* The loop of QueryTemplateFilterer.use_document_in_sse over filter_opts.items()
FiltererLoop(doc_metadata, opts, all_constraints_ok) ==
    IF Len(opts) = 0 THEN PyBool(all_constraints_ok)
    ELSE LET var1 == opts[1][1]
             expr1 == opts[1][2]
         IN  IF PyGet(doc_metadata, var1, NoneV)[2] = NoneV
             THEN FiltererLoop(doc_metadata, Tail(opts), all_constraints_ok)
             ELSE LET rp == RulePairs(doc_metadata, var1, expr1)
                  IN  IF rp.err THEN "E"
                      ELSE IF Len(rp.pairs) = 0
                      THEN FiltererLoop(doc_metadata, Tail(opts), all_constraints_ok)
                      ELSE IF PairsLoop(rp.pairs) # "T" THEN PairsLoop(rp.pairs)
                      ELSE FiltererLoop(doc_metadata, Tail(opts), TRUE)

\* QueryTemplateFilterer.use_document_in_sse
FiltererUseDocumentInSse(query_template, document) ==
    IF document.metadata_json = NoneV \/ Len(document.metadata_json.v) = 0 THEN "F"
    ELSE IF query_template.data_filter_expressions = NoneV
            \/ Len(query_template.data_filter_expressions.v) = 0 THEN "T"
    ELSE FiltererLoop(document.metadata_json,
                      query_template.data_filter_expressions.v, FALSE)

RECURSIVE AllTemplatesAccept(_, _)
\* The inner loop of filter_documents: stops at the first rejecting template.
AllTemplatesAccept(query_templates, d) ==
    IF Len(query_templates) = 0 THEN "T"
    ELSE LET r == FiltererUseDocumentInSse(query_templates[1], d)
         IN  IF r # "T" THEN r ELSE AllTemplatesAccept(Tail(query_templates), d)

\* QueryTemplateController.filter_documents: [err, docs] (docs a sequence).
FilterDocuments(docs, query_templates) ==
    IF \E i \in 1..Len(docs) : GrammarUseDocumentInSse(docs[i]) = "E"
    THEN [err |-> TRUE, docs |-> <<>>]
    ELSE LET f_docs == SelectSeq(docs, LAMBDA d : GrammarUseDocumentInSse(d) = "T")
         IN  IF \E i \in 1..Len(f_docs) : AllTemplatesAccept(query_templates, f_docs[i]) = "E"
             THEN [err |-> TRUE, docs |-> <<>>]
             ELSE [err |-> FALSE,
                   docs |-> SelectSeq(f_docs,
                               LAMBDA d : AllTemplatesAccept(query_templates, d) = "T")]

RECURSIVE MergeConnectors(_, _)
\* data_filter of __get_documents_based_on_templates: the connectors of all
\* templates merged key by key, a later template overwriting an earlier one.
MergeConnectors(query_templates, acc) ==
    IF Len(query_templates) = 0 THEN acc
    ELSE LET dc == query_templates[1].data_connector.v
             keys == {dc[i][1] : i \in 1..Len(dc)}
             kept == SelectSeq(acc, LAMBDA kv : kv[1] \notin keys)
         IN  MergeConnectors(Tail(query_templates), kept \o dc)

\* Django lookup metadata_json__<key> = value for every pair of data_filter.
MatchesDataFilter(d, data_filter) ==
    \A i \in 1..Len(data_filter) :
        /\ d.metadata_json.t = "dict"
        /\ DictHas(d.metadata_json, data_filter[i][1])
        /\ DictGet(d.metadata_json, data_filter[i][1]) = data_filter[i][2]

\* DBSemanticSearchController.__get_documents_based_on_templates with
\* return_documents_names=True: [err, names].
GetDocumentsBasedOnTemplates(docs, query_templates) ==
    LET data_filter == MergeConnectors(query_templates, <<>>)
        template_docs == SelectSeq(docs, LAMBDA d :
                             d.use_in_search /\ MatchesDataFilter(d, data_filter))
        f == FilterDocuments(template_docs, query_templates)
    IN  [err |-> f.err, names |-> {f.docs[i].name : i \in 1..Len(f.docs)}]


(***************************************************************************)
(* Document-name queries of DBTextSearchController and the metadata filter *)
(***************************************************************************)
\* DBTextSearchController.documents_names_from_categories
DocumentsNamesFromCategories(docs, categories, only_used_to_search) ==
    {docs[i].name : i \in {j \in 1..Len(docs) :
        /\ docs[j].category \in SeqToSet(categories)
        /\ only_used_to_search => docs[j].use_in_search}}

\* DBTextSearchController.document_names_relative_path_contains
DocumentNamesRelativePathContains(docs, texts, only_used_to_search) ==
    {docs[i].name : i \in {j \in 1..Len(docs) :
        /\ \E t \in SeqToSet(texts) : StrContains(t, docs[j].relative_path)
        /\ only_used_to_search => docs[j].use_in_search}}

\* DBSemanticSearchController.__get_documents_with_metadata_filter_expression:
\* every Document of the collection is tested; [err, names].
GetDocumentsWithMetadataFilterExpression(docs, expression) ==
    [err |-> \E i \in 1..Len(docs) :
                 IsDocumentCoveredWithMetadataExpression(docs[i], expression) = "E",
     names |-> {docs[i].name : i \in {j \in 1..Len(docs) :
                 IsDocumentCoveredWithMetadataExpression(docs[j], expression) = "T"}}]

RECURSIVE CombineSets(_, _, _)
\* The fold `acc = set(l) & acc` / `acc = set(l) | acc` over the lists.
CombineSets(lists, acc, use_and_operator) ==
    IF Len(lists) = 0 THEN acc
    ELSE CombineSets(Tail(lists),
                     IF use_and_operator THEN lists[1] \cap acc ELSE lists[1] \cup acc,
                     use_and_operator)

\* Lines 577-596 without the `if len(l)` tests: empty lists take part too.
CombineNonEmpty_KeepsEmptyLists(lists, use_and_operator) ==
    IF Len(lists) = 0 THEN {}
    ELSE CombineSets(Tail(lists), lists[1], use_and_operator)

\* Only the non-empty lists take part; no list at all gives the empty list.
CombineNonEmpty(lists, use_and_operator) ==
    LET filled == SelectSeq(lists, LAMBDA l : l # {})
    IN  IF Len(filled) = 0 THEN {}
        ELSE CombineSets(Tail(filled), filled[1], use_and_operator)

\* DBSemanticSearchController.__filter_documents_based_on_metadata: [err, names]
FilterDocumentsBasedOnMetadata(docs, metadata_filters, use_and_operator) ==
    IF Len(metadata_filters) = 0 THEN [err |-> FALSE, names |-> {}]
    ELSE LET per == [i \in 1..Len(metadata_filters) |->
                        GetDocumentsWithMetadataFilterExpression(docs, metadata_filters[i])]
         IN  IF \E i \in 1..Len(per) : per[i].err THEN [err |-> TRUE, names |-> {}]
             ELSE [err |-> FALSE,
                   names |-> CombineNonEmpty([i \in 1..Len(per) |-> per[i].names],
                                             use_and_operator)]

(***************************************************************************)
(* DBSemanticSearchController.search_with_options up to the call of        *)
(* search(): what it returns early, or the arguments it searches with.     *)
(***************************************************************************)
EmptyResult(linked) ==
    [outcome |-> "empty", search_in_documents |-> {}, relative_paths |-> <<>>,
     template_prompts |-> <<>>, linked |-> linked]
ErrorResult(linked) ==
    [outcome |-> "error", search_in_documents |-> {}, relative_paths |-> <<>>,
     template_prompts |-> <<>>, linked |-> linked]

\* Lines 521-525 without `user_query.query_templates.add(template)`.
LinkedTemplates_NoLink(query_templates, uq_present) == {}

\* The templates the call links to the UserQuery, and the prompts it collects.
LinkedTemplates(query_templates, uq_present) ==
    IF uq_present THEN {query_templates[i].id : i \in 1..Len(query_templates)} ELSE {}

\* str.strip() on the prompts of the catalog.
Strip(x) == IF x \in {" ", "  "} THEN "" ELSE x

PromptIsFilled(qt) ==
    /\ qt.system_prompt # NoneV
    /\ Strip(qt.system_prompt.v) # ""

TemplatePrompts(query_templates, uq_present) ==
    IF uq_present
    THEN LET filled == SelectSeq(query_templates, PromptIsFilled)
         IN  [i \in 1..Len(filled) |-> filled[i].system_prompt.v]
    ELSE <<>>

\* Lines 570-632: combination of the name lists, the two late returns and the
\* call of search().
CombineAndSearch(p, doc_names_from_cat, document_names, relative_paths, q_document_names, metadata_doc_names, relative_doc_names, was_filter_option, template_prompts, linked) ==
    LET docs_to_search ==
            CombineNonEmpty(<<doc_names_from_cat, document_names, q_document_names,
                              metadata_doc_names, relative_doc_names>>,
                            p.use_and_operator)
    IN  IF docs_to_search = {} /\ Len(p.categories) > 0 THEN EmptyResult(linked)
        ELSE IF was_filter_option /\ Len(relative_paths) = 0 /\ docs_to_search = {}
        THEN EmptyResult(linked)
        ELSE [outcome |-> "searched", search_in_documents |-> docs_to_search,
              relative_paths |-> relative_paths,
              template_prompts |-> template_prompts, linked |-> linked]

\* Lines 566-568 and on: the documents of the metadata filters are known.
MetadataDocsStep(p, doc_names_from_cat, document_names, relative_paths, q_document_names, relative_doc_names, template_prompts, linked, m) ==
    IF m.err THEN ErrorResult(linked)
    ELSE IF m.names = {} /\ p.use_and_operator THEN EmptyResult(linked)
    ELSE CombineAndSearch(p, doc_names_from_cat, document_names, relative_paths,
                          q_document_names, m.names, relative_doc_names, TRUE,
                          template_prompts, linked)

\* Lines 553-568: the metadata filter step, then the rest.
MetadataStep(docs, p, doc_names_from_cat, document_names, relative_paths, q_document_names, relative_doc_names, was_filter_option, template_prompts, linked) ==
    IF Len(p.metadata_filters) = 0
    THEN CombineAndSearch(p, doc_names_from_cat, document_names, relative_paths,
                          q_document_names, {}, relative_doc_names,
                          was_filter_option, template_prompts, linked)
    ELSE MetadataDocsStep(p, doc_names_from_cat, document_names, relative_paths,
                          q_document_names, relative_doc_names, template_prompts,
                          linked,
                          FilterDocumentsBasedOnMetadata(docs, p.metadata_filters, FALSE))

\* Lines 531-551 and on: the documents the templates admit are known.
TemplateDocsStep(docs, p, doc_names_from_cat, relative_doc_names, linked, template_prompts, t) ==
    IF t.err THEN ErrorResult(linked)
    ELSE IF t.names = {} /\ p.only_template_documents THEN EmptyResult(linked)
    ELSE IF t.names = {} /\ p.use_and_operator THEN EmptyResult(linked)
    ELSE MetadataStep(docs, p,
             IF p.only_template_documents THEN {} ELSE doc_names_from_cat,
             IF p.only_template_documents THEN {} ELSE SeqToSet(p.documents),
             IF p.only_template_documents THEN <<>> ELSE p.relative_paths,
             t.names, relative_doc_names, TRUE, template_prompts, linked)

\* Lines 512-551: the template step, then the rest.
TemplateStep(docs, p, uq_present, doc_names_from_cat, relative_doc_names, was_filter_option, query_templates) ==
    IF Len(query_templates) = 0
    THEN MetadataStep(docs, p, doc_names_from_cat, SeqToSet(p.documents),
                      p.relative_paths, {}, relative_doc_names,
                      was_filter_option, <<>>, {})
    ELSE TemplateDocsStep(docs, p, doc_names_from_cat, relative_doc_names,
                          LinkedTemplates(query_templates, uq_present),
                          TemplatePrompts(query_templates, uq_present),
                          GetDocumentsBasedOnTemplates(docs, query_templates))

\* Lines 488-510: the relative_path_contains step, then the rest.
RelativePathStep(docs, p, uq_present, doc_names_from_cat, relative_doc_names) ==
    IF Len(p.relative_path_contains) > 0 /\ relative_doc_names = {}
       /\ p.use_and_operator
    THEN EmptyResult({})
    ELSE IF PrepareTemplatesRaises(p.templates) THEN ErrorResult({})
    ELSE TemplateStep(docs, p, uq_present, doc_names_from_cat, relative_doc_names,
                      Len(p.relative_path_contains) > 0,
                      PrepareTemplatesForUser(UserOrganisation, p.templates))

\* DBSemanticSearchController.search_with_options
SearchWithOptions(docs, p, uq_present) ==
    RelativePathStep(docs, p, uq_present,
        IF Len(p.categories) > 0
        THEN DocumentsNamesFromCategories(docs, p.categories, TRUE) ELSE {},
        IF Len(p.relative_path_contains) > 0
        THEN DocumentNamesRelativePathContains(docs, p.relative_path_contains, TRUE)
        ELSE {})


\* DBSemanticSearchController.search: the metadata_filter handed to Milvus. A
\* key is set only for a non-empty list; without "filenames" every document
\* of the collection is searched.
MilvusMetadataFilter(search_in_documents, relative_paths) ==
    [has_filenames |-> search_in_documents # {},
     filenames |-> search_in_documents,
     has_relative_paths |-> Len(relative_paths) > 0,
     relative_paths |-> relative_paths]

(***************************************************************************)
(* Inputs of one search_with_options call.                                 *)
(***************************************************************************)
MaxTemplates == 2
MaxMetadataFilters == 2

Expr(operator, field) == [operator |-> operator, field |-> field]

\* The metadata filter expressions a query may carry.
MetadataFilterPool ==
    << Expr(S("eq"), D(<< <<"type", S("event")>> >>)),
       Expr(S("in"), D(<< <<"labels", S("k")>> >>)),
       Expr(S("eq"), D(<< <<"geo", D(<< <<"city", S("k")>> >>)>> >>)),
       Expr(S("gte"), D(<< <<"year", S("2000")>> >>)) >>

TemplateIdPool == <<1, 3, 5>>

\* Increasing index sequences of length <= n over 1..m (lists up to order and
\* repetition, which the set-based combination cannot tell apart).
IncreasingSeqs(m, n) ==
    UNION {{q \in [1..k -> 1..m] : \A i \in 1..(k - 1) : q[i] < q[i + 1]} : k \in 0..n}

\* Sequences without repetition of length <= n over 1..m.
DistinctSeqs(m, n) ==
    UNION {{q \in [1..k -> 1..m] : \A i, j \in 1..k : i # j => q[i] # q[j]} : k \in 0..n}

SearchParamsSet ==
    [categories : {<<>>, <<"Sport">>, <<"Ghost">>},
     documents : {<<>>, <<"z">>},
     relative_paths : {<<>>, <<"sport/a">>},
     relative_path_contains : {<<>>, <<"sport", "/a">>, <<"zzz">>},
     templates : {[i \in 1..Len(q) |-> TemplateIdPool[q[i]]] :
                     q \in DistinctSeqs(Len(TemplateIdPool), MaxTemplates)},
     only_template_documents : BOOLEAN,
     metadata_filters : {[i \in 1..Len(q) |-> MetadataFilterPool[q[i]]] :
                     q \in IncreasingSeqs(Len(MetadataFilterPool), MaxMetadataFilters)},
     use_and_operator : BOOLEAN]



(***************************************************************************)
(* Filter resolution: the name sets each filter of the query yields.       *)
(***************************************************************************)
ResolvedTemplates == PrepareTemplatesForUser(UserOrganisation, search_params.templates)
CategoryDocs ==
    IF Len(search_params.categories) > 0
    THEN DocumentsNamesFromCategories(documents, search_params.categories, TRUE)
    ELSE {}
ExplicitDocs == SeqToSet(search_params.documents)
PathContainsDocs ==
    IF Len(search_params.relative_path_contains) > 0
    THEN DocumentNamesRelativePathContains(
             documents, search_params.relative_path_contains, TRUE)
    ELSE {}
TemplateDocs ==
    IF Len(ResolvedTemplates) > 0
    THEN GetDocumentsBasedOnTemplates(documents, ResolvedTemplates).names
    ELSE {}
MetadataDocs ==
    FilterDocumentsBasedOnMetadata(documents, search_params.metadata_filters, FALSE).names

Searched == search_pc = "done" /\ search_out.outcome = "searched"
ReturnedEmpty == search_pc = "done" /\ search_out.outcome = "empty"
Raised == search_pc = "done" /\ search_out.outcome = "error"

\* Intersection or union of the non-empty sets among a set of name sets.
CombinationOf(operands, use_and_operator) ==
    LET filled == operands \ {{}}
    IN  IF filled = {} THEN {}
        ELSE IF use_and_operator
             THEN {n \in UNION filled : \A o \in filled : n \in o}
             ELSE UNION filled

\* C1: with use_and_operator=true, a specified filter category (categories,
\* relative_path_contains, templates that resolved, metadata_filters) that
\* yields no document makes the call return the empty result without searching.
C1_AnyEmptyCategoryVoidsAndSearch ==
    (/\ search_pc = "done"
     /\ search_params.use_and_operator
     /\ ~Raised
     /\ \/ Len(search_params.categories) > 0 /\ CategoryDocs = {}
        \/ Len(search_params.relative_path_contains) > 0 /\ PathContainsDocs = {}
        \/ Len(ResolvedTemplates) > 0 /\ TemplateDocs = {}
        \/ Len(search_params.metadata_filters) > 0 /\ MetadataDocs = {})
    => ReturnedEmpty

\* The operands the combination step works on: with only_template_documents
\* and a resolved template, categories and explicit documents are dropped.
OnlyTemplatesActive ==
    search_params.only_template_documents /\ Len(ResolvedTemplates) > 0
EffectiveOperands ==
    {IF OnlyTemplatesActive THEN {} ELSE CategoryDocs,
     IF OnlyTemplatesActive THEN {} ELSE ExplicitDocs,
     TemplateDocs, MetadataDocs, PathContainsDocs}
AllOperands ==
    {CategoryDocs, ExplicitDocs, TemplateDocs, MetadataDocs, PathContainsDocs}

\* C2: with use_and_operator=true, an empty intersection of the non-empty
\* operand sets makes the call return the empty result; the vector search is
\* never run without a document restriction in that case.
C2_EmptyIntersectionNeverSearched ==
    (/\ search_pc = "done"
     /\ search_params.use_and_operator
     /\ ~Raised
     /\ EffectiveOperands # {{}}
     /\ CombinationOf(EffectiveOperands, TRUE) = {})
    => ReturnedEmpty

\* C3 as stated: the names passed to search() are the intersection/union of
\* the non-empty sets among all five operands.
C3_SearchesCombinationOfAllOperands ==
    Searched =>
        search_out.metadata_filter.filenames
            = CombinationOf(AllOperands, search_params.use_and_operator)

\* C3 amended: the same with categories and explicit documents left out when
\* only_template_documents is set and a requested template resolved; with no
\* filter at all the search runs unrestricted.
C3_SearchesCombinationOfEffectiveOperands ==
    /\ Searched =>
          /\ search_out.metadata_filter.filenames
                = CombinationOf(EffectiveOperands, search_params.use_and_operator)
          /\ search_out.metadata_filter.has_filenames
                = (search_out.metadata_filter.filenames # {})
    /\ (search_pc = "done" /\ AllOperands = {{}} /\ ~Raised
            /\ Len(search_params.categories) = 0
            /\ Len(search_params.relative_path_contains) = 0
            /\ Len(search_params.metadata_filters) = 0
            /\ Len(ResolvedTemplates) = 0)
          => (Searched /\ ~search_out.metadata_filter.has_filenames)

C3_Witness ==
    /\ Searched
    /\ search_params.use_and_operator
    /\ Cardinality(EffectiveOperands \ {{}}) >= 2
    /\ search_out.metadata_filter.filenames # {}
    /\ search_out.metadata_filter.filenames # UNION EffectiveOperands

\* C4: with use_and_operator=true and several metadata_filters as the only
\* filter, the searched documents are those matching every expression.
C4_MetadataFiltersAreAnded ==
    (/\ Searched
     /\ search_params.use_and_operator
     /\ Len(search_params.metadata_filters) >= 2
     /\ Len(search_params.categories) = 0
     /\ Len(search_params.documents) = 0
     /\ Len(search_params.relative_path_contains) = 0
     /\ Len(ResolvedTemplates) = 0)
    => search_out.metadata_filter.filenames
          = {documents[i].name : i \in {j \in 1..Len(documents) :
                \A k \in 1..Len(search_params.metadata_filters) :
                    IsDocumentCoveredWithMetadataExpression(
                        documents[j], search_params.metadata_filters[k]) = "T"}}

\* C5: only_template_documents with requested templates that admit no
\* document returns the empty result without searching.
C5_OnlyTemplatesWithoutDocumentsIsEmpty ==
    (/\ search_pc = "done"
     /\ search_params.only_template_documents
     /\ Len(search_params.templates) > 0
     /\ TemplateDocs = {}
     /\ ~Raised)
    => ReturnedEmpty


(***************************************************************************)
(* Document statistics and rank-mass selection.                            *)
(* A hit score is a number of halves (1 = 0.5, 4 = 2.0). Logarithms are    *)
(* kept in thousandths; a scaled share is the exact fraction               *)
(* scaled_num / scaled_den of those.                                       *)
(***************************************************************************)
MaxHits == 3
SmoothDen == 10000      \* smooth_factor = 1 / SmoothDen = 0.0001

\* round(1000 * ln(x)) for x = 1..64
LnTable ==
    <<0, 693, 1099, 1386, 1609, 1792, 1946, 2079, 2197, 2303, 2398, 2485, 2565,
      2639, 2708, 2773, 2833, 2890, 2944, 2996, 3045, 3091, 3135, 3178, 3219,
      3258, 3296, 3332, 3367, 3401, 3434, 3466, 3497, 3526, 3555, 3584, 3611,
      3638, 3664, 3689, 3714, 3738, 3761, 3784, 3807, 3829, 3850, 3871, 3892,
      3912, 3932, 3951, 3970, 3989, 4007, 4025, 4043, 4060, 4078, 4094, 4111,
      4127, 4143, 4159>>

\* math.log that answers a non-positive argument with a value.
MathLog_NoDomainError(halves) ==
    <<TRUE, IF halves <= 0 THEN 0 ELSE LnTable[halves] - LnTable[2]>>

\* math.log of a number of halves, in thousandths: <<ok, value>>; ok = FALSE
\* is the ValueError of a non-positive argument.
MathLog(halves) ==
    IF halves <= 0 THEN <<FALSE, 0>> ELSE <<TRUE, LnTable[halves] - LnTable[2]>>

Abs(n) == IF n < 0 THEN 0 - n ELSE n
Max(a, b) == IF a >= b THEN a ELSE b

RECURSIVE SumSeq(_)
SumSeq(xs) == IF Len(xs) = 0 THEN 0 ELSE xs[1] + SumSeq(Tail(xs))

RECURSIVE MinSeq(_)
MinSeq(xs) ==
    IF Len(xs) = 1 THEN xs[1]
    ELSE IF xs[1] <= MinSeq(Tail(xs)) THEN xs[1] ELSE MinSeq(Tail(xs))

RECURSIVE FirstSeen(_, _)
\* The keys of doc_stats in insertion order: document names by first hit.
FirstSeen(hits, seen) ==
    IF Len(hits) = 0 THEN seen
    ELSE FirstSeen(Tail(hits),
                   IF hits[1].document_name \in SeqToSet(seen) THEN seen
                   ELSE Append(seen, hits[1].document_name))

HitsOf(hits, name) == SelectSeq(hits, LAMBDA h : h.document_name = name)

RECURSIVE SortedSet(_)
\* sorted(set(...)): the elements in ascending order.
SortedSet(set) ==
    IF set = {} THEN <<>>
    ELSE LET least == CHOOSE e \in set : \A o \in set : e <= o
         IN  <<least>> \o SortedSet(set \ {least})

\* Line 1159: sorted(set(res["pages"]))
PagesOf(mine) == SortedSet({mine[i].page_number : i \in 1..Len(mine)})

\* Lines 1137-1164: hits, pages, mean score and the product under the log.
\* score is the fraction <<sum of the hit scores, hits>>.
DocAggregate(hits, name) ==
    LET mine == HitsOf(hits, name)
        pages == PagesOf(mine)
        score_sum == SumSeq([i \in 1..Len(mine) |-> mine[i].score])
    IN  [hits |-> Len(mine),
         pages |-> pages,
         pages_count |-> Len(pages),
         score |-> <<score_sum, Len(mine)>>,
         score_sum |-> score_sum,
         product |-> score_sum * Len(pages)]

\* Line 1167 without the shift by min_w_scores.
SumWScores_Unshifted(w_scores, min_w_scores) == SumSeq(w_scores)

\* Line 1167: sum([s + min_w_scores for s in w_scores])
SumWScores(w_scores, min_w_scores) ==
    SumSeq([i \in 1..Len(w_scores) |-> w_scores[i] + min_w_scores])

\* Lines 1170-1175 without the smoothing floor.
ScaledNum_NoFloor(v, min_w_scores, sum_w_scores) ==
    IF sum_w_scores > 0 THEN SmoothDen * (v + min_w_scores) ELSE 1

\* Lines 1168-1175: the scaled share of one weighted score, as a numerator
\* over ScaledDen.
ScaledNum(v, min_w_scores, sum_w_scores) ==
    IF sum_w_scores > 0
    THEN Max(sum_w_scores, SmoothDen * (v + min_w_scores))
    ELSE 1
ScaledDen(sum_w_scores) ==
    IF sum_w_scores > 0 THEN SmoothDen * sum_w_scores ELSE 1

\* DBSemanticSearchController.prepare_documents_stats. err: the call raised
\* (math.log of a non-positive product, min() of no scores).
PrepareDocumentsStats(postgres_docs) ==
    LET names == FirstSeen(postgres_docs, <<>>)
        agg == [n \in SeqToSet(names) |-> DocAggregate(postgres_docs, n)]
    IN  IF \E n \in SeqToSet(names) : ~MathLog(agg[n].product)[1]
        THEN [err |-> TRUE, names |-> <<>>]
        ELSE IF Len(names) = 0 THEN [err |-> TRUE, names |-> <<>>]
        ELSE LET w == [n \in SeqToSet(names) |-> MathLog(agg[n].product)[2]]
                 w_scores == [i \in 1..Len(names) |-> w[names[i]]]
                 min_w_scores == Abs(MinSeq(w_scores))
                 sum_w_scores == SumWScores(w_scores, min_w_scores)
             IN  [err |-> FALSE,
                  names |-> names,
                  min_w |-> min_w_scores,
                  sum_w |-> sum_w_scores,
                  scaled_den |-> ScaledDen(sum_w_scores),
                  stats |-> [n \in SeqToSet(names) |->
                      [hits |-> agg[n].hits,
                       pages |-> agg[n].pages,
                       pages_count |-> agg[n].pages_count,
                       score |-> agg[n].score,
                       score_sum |-> agg[n].score_sum,
                       score_weighted |-> w[n],
                       scaled_num |-> ScaledNum(w[n], min_w_scores, sum_w_scores)]]]

\* DBSemanticSearchController.filter_stats_to_display_results: the names kept.
FilterStatsToDisplayResults(ds, remove_under_hits, remove_under_pages) ==
    SelectSeq(ds.names, LAMBDA n :
        /\ ds.stats[n].hits >= remove_under_hits
        /\ ds.stats[n].pages_count >= remove_under_pages)


(***************************************************************************)
(* get_accumulated_docs_by_rank_perc. A target is the fraction             *)
(* <<numerator, denominator>>; <<40, 1>> is the integer 40.                *)
(***************************************************************************)
RECURSIVE RatGeq(_, _, _, _)
\* a / b >= c / d for a, c >= 0 and b, d > 0, without forming products.
RatGeq(a, b, c, d) ==
    LET qa == a \div b
        qc == c \div d
        ra == a % b
        rc == c % d
    IN  IF qa # qc THEN qa > qc
        ELSE IF rc = 0 THEN TRUE
        ELSE IF ra = 0 THEN FALSE
        ELSE RatGeq(d, rc, b, ra)

\* Lines 1062-1064 without the division: the target is taken as it is.
PercMax_NoPercent(perc_rank_gen_qa) == perc_rank_gen_qa

\* Lines 1062-1064.
PercMax(perc_rank_gen_qa) ==
    IF perc_rank_gen_qa[1] > perc_rank_gen_qa[2]
    THEN <<perc_rank_gen_qa[1], perc_rank_gen_qa[2] * 100>>
    ELSE perc_rank_gen_qa

\* sorted(..., reverse=True) is stable: equal keys keep their dict order.
InsertDesc(xs, n, key) ==
    LET k == Cardinality({i \in 1..Len(xs) : key[xs[i]] >= key[n]})
    IN  SubSeq(xs, 1, k) \o <<n>> \o SubSeq(xs, k + 1, Len(xs))

RECURSIVE SortLoop(_, _, _)
SortLoop(todo, done, key) ==
    IF Len(todo) = 0 THEN done
    ELSE SortLoop(Tail(todo), InsertDesc(done, todo[1], key), key)

SortedDocNames(ds) ==
    IF Len(ds.names) = 0 THEN <<>>
    ELSE SortLoop(ds.names, <<>>, [n \in SeqToSet(ds.names) |-> ds.stats[n].scaled_num])

\* Line 1069 with > in place of >=.
StopTest_Strict(accum_num, den, perc_max) ==
    ~RatGeq(perc_max[1], perc_max[2], accum_num, den)

\* Line 1069: accum_perc >= perc_max
StopTest(accum_num, den, perc_max) ==
    RatGeq(accum_num, den, perc_max[1], perc_max[2])

RECURSIVE RankLoop_AppendFirst(_, _, _, _, _)
\* The loop with the document appended before the stop condition is tested.
RankLoop_AppendFirst(sorted, ds, perc_max, accum_num, ret_docs) ==
    IF Len(sorted) = 0 THEN ret_docs
    ELSE LET acc == accum_num + ds.stats[sorted[1]].scaled_num
         IN  IF StopTest(acc, ds.scaled_den, perc_max)
             THEN Append(ret_docs, sorted[1])
             ELSE RankLoop_AppendFirst(Tail(sorted), ds, perc_max, acc,
                                       Append(ret_docs, sorted[1]))

AccumulateDocs_AppendFirst(sorted, ds, perc_max) ==
    RankLoop_AppendFirst(sorted, ds, perc_max, 0, <<>>)

RECURSIVE RankLoop(_, _, _, _, _)
\* Lines 1068-1072.
RankLoop(sorted, ds, perc_max, accum_num, ret_docs) ==
    IF Len(sorted) = 0 THEN ret_docs
    ELSE IF StopTest(accum_num, ds.scaled_den, perc_max) THEN ret_docs
    ELSE RankLoop(Tail(sorted), ds, perc_max,
                  accum_num + ds.stats[sorted[1]].scaled_num,
                  Append(ret_docs, sorted[1]))

\* Lines 1066-1073.
AccumulateDocs(sorted, ds, perc_max) == RankLoop(sorted, ds, perc_max, 0, <<>>)

GetAccumulatedDocsByRankPerc(ds, perc_rank_gen_qa) ==
    AccumulateDocs(SortedDocNames(ds), ds, PercMax(perc_rank_gen_qa))

\* convert_search_results_to_doc2answer: the indexes of the results whose
\* text goes into doc2answers.
ConvertSearchResultsToDoc2answer(search_results, which_docs) ==
    {i \in 1..Len(search_results) :
        ~(/\ Len(which_docs) > 0
          /\ search_results[i].document_name \notin SeqToSet(which_docs))}

\* generative_answer_for_response_openai -> generative_summarization_openai:
\* every text of doc2answers becomes a chat message.
GenerativeAnswerForResponseOpenai(ds, detailed_results, percentage_rank_mass) ==
    LET which_docs == GetAccumulatedDocsByRankPerc(ds, percentage_rank_mass)
    IN  [path |-> "openai",
         target |-> percentage_rank_mass,
         which_docs |-> which_docs,
         forwarded |-> ConvertSearchResultsToDoc2answer(detailed_results, which_docs),
         model_called |-> TRUE]

\* generative_answer_for_response_from_api -> generative_answer_local_api_model
GenerativeAnswerForResponseFromApi(ds, detailed_results, percentage_rank_mass, dont_response_when_no_documents) ==
    LET which_docs == GetAccumulatedDocsByRankPerc(ds, percentage_rank_mass)
        texts == ConvertSearchResultsToDoc2answer(detailed_results, which_docs)
        called == /\ ~(Len(which_docs) = 0 /\ dont_response_when_no_documents)
                  /\ texts # {}
    IN  [path |-> "api",
         target |-> percentage_rank_mass,
         which_docs |-> which_docs,
         forwarded |-> IF called THEN texts ELSE {},
         model_called |-> called]


(***************************************************************************)
(* The handlers: a query (search_with_options and the stored response),    *)
(* then the generative answer for the stored response.                     *)
(***************************************************************************)
Hit(document_name, page_number, score) ==
    [document_name |-> document_name, page_number |-> page_number, score |-> score]

\* The text chunks the vector search may return (score in halves).
HitPool ==
    << Hit("x", 1, 4), Hit("x", 2, 4), Hit("x", 1, 1),
       Hit("y", 1, 1), Hit("y", 2, 4), Hit("y", 1, 2),
       Hit("z", 1, 1), Hit("z", 1, 0), Hit("z", 2, 0 - 1) >>

HitLists ==
    UNION {{[i \in 1..k |-> HitPool[q[i]]] : q \in [1..k -> 1..Len(HitPool)]} :
              k \in 0..MaxHits}

\* percentage_rank_mass values of query_options: 0, 0.00005, 0.5, 0.999, 1,
\* 40, 100 and 250.
RankMassPool ==
    {<<0, 1>>, <<1, 20000>>, <<1, 2>>, <<999, 1000>>, <<1, 1>>, <<40, 1>>,
     <<100, 1>>, <<250, 1>>}

NoFilterParams ==
    [categories |-> <<>>, documents |-> <<>>, relative_paths |-> <<>>,
     relative_path_contains |-> <<>>, templates |-> <<>>,
     only_template_documents |-> FALSE, metadata_filters |-> <<>>,
     use_and_operator |-> FALSE]

NoSearchOut == [outcome |-> "none"]
NoDocStats == [err |-> FALSE, names |-> <<>>]
NoGenOut == [path |-> "none"]

\* A query whose vector search finds nothing, under every filter combination.
InitSearch ==
    /\ documents = Catalog
    /\ search_params \in SearchParamsSet
    /\ user_query \in {[present |-> b, query_templates |-> {}] : b \in BOOLEAN}
    /\ search_pc = "call"
    /\ search_out = NoSearchOut
    /\ raw_hits = <<>>
    /\ stats_pc = "off"
    /\ doc_stats = NoDocStats
    /\ gen_out = NoGenOut

\* An unfiltered query, under every answer of the vector search.
InitRank ==
    /\ documents = Catalog
    /\ search_params = NoFilterParams
    /\ user_query = [present |-> TRUE, query_templates |-> {}]
    /\ search_pc = "call"
    /\ search_out = NoSearchOut
    /\ raw_hits \in HitLists
    /\ stats_pc = "off"
    /\ doc_stats = NoDocStats
    /\ gen_out = NoGenOut

\* Lines 650-654: filter_stats_to_display_results(prepare_documents_stats(..), 1, 1)
DisplayedStats(ds) ==
    IF ds.err THEN ds
    ELSE [ds EXCEPT !.names = FilterStatsToDisplayResults(ds, 1, 1)]

\* Lines 633-656: the statistics of the returned hits.
ResultStats(query_results) ==
    IF Len(query_results) = 0 THEN NoDocStats
    ELSE DisplayedStats(PrepareDocumentsStats(query_results))

\* MilvusHandler.__prepare_filtering_options: the hits search() returns are
\* those of the listed filenames and relative paths (a key with an empty list
\* filters nothing).
SearchResults(hits, docs, r) ==
    SelectSeq(hits, LAMBDA h :
        /\ r.search_in_documents # {} => h.document_name \in r.search_in_documents
        /\ Len(r.relative_paths) > 0 =>
               \E i \in 1..Len(docs) : /\ docs[i].name = h.document_name
                                       /\ docs[i].relative_path \in SeqToSet(r.relative_paths))

\* Lines 633-635 and 685: the prompts are returned with the results only;
\* `return {}, {}, []` when search() found nothing.
ReturnedPrompts(r, query_results) ==
    IF r.outcome = "searched" /\ Len(query_results) > 0 THEN r.template_prompts
    ELSE <<>>

\* new_query, lines 123-131: the response is stored with its stats, unless
\* the call raised.
StoreQueryResponse(r, ds, template_prompts) ==
    /\ search_out' = [outcome |-> r.outcome,
                      template_prompts |-> template_prompts,
                      metadata_filter |->
                          MilvusMetadataFilter(r.search_in_documents, r.relative_paths)]
    /\ user_query' = [user_query EXCEPT !.query_templates = @ \cup r.linked]
    /\ doc_stats' = ds
    /\ stats_pc' = IF ds.err \/ r.outcome = "error" THEN "raised" ELSE "stored"

\* Lines 622-656: raw_hits is what the vector search returns when it is called.
SearchAndStore(r) ==
    StoreQueryResponse(r,
        ResultStats(IF r.outcome = "searched" THEN SearchResults(raw_hits, documents, r)
                    ELSE <<>>),
        ReturnedPrompts(r, SearchResults(raw_hits, documents, r)))

\* SearchQueryController.new_query: search_with_options, then the response
\* is stored with its stats and detailed results.
DoSearchWithOptions ==
    /\ search_pc = "call"
    /\ SearchAndStore(SearchWithOptions(documents, search_params, user_query.present))
    /\ search_pc' = "done"
    /\ UNCHANGED <<documents, search_params, raw_hits, gen_out>>

\* get_user_query_response_answer with an OpenAI model name
GenerateOpenAI ==
    /\ stats_pc = "stored"
    /\ \E percentage_rank_mass \in RankMassPool :
          gen_out' = GenerativeAnswerForResponseOpenai(doc_stats, raw_hits,
                                                       percentage_rank_mass)
    /\ UNCHANGED <<documents, search_params, user_query, search_pc, search_out,
                   raw_hits, stats_pc, doc_stats>>

\* get_user_query_response_answer with a local model name
GenerateFromApi ==
    /\ stats_pc = "stored"
    /\ \E percentage_rank_mass \in RankMassPool :
          gen_out' = GenerativeAnswerForResponseFromApi(doc_stats, raw_hits,
                                                        percentage_rank_mass, TRUE)
    /\ UNCHANGED <<documents, search_params, user_query, search_pc, search_out,
                   raw_hits, stats_pc, doc_stats>>

NextSearch == DoSearchWithOptions

SpecSearch == InitSearch /\ [][NextSearch]_vars

\* prepare_documents_stats applied to a list of hits on its own.
InitStats ==
    /\ documents = Catalog
    /\ search_params = NoFilterParams
    /\ user_query = [present |-> TRUE, query_templates |-> {}]
    /\ search_pc = "pure"
    /\ search_out = NoSearchOut
    /\ raw_hits \in HitLists
    /\ stats_pc = "off"
    /\ doc_stats = NoDocStats
    /\ gen_out = NoGenOut

ApplyPrepareDocumentsStats ==
    /\ search_pc = "pure"
    /\ stats_pc = "off"
    /\ doc_stats' = PrepareDocumentsStats(raw_hits)
    /\ stats_pc' = "applied"
    /\ UNCHANGED <<documents, search_params, user_query, search_pc, search_out,
                   raw_hits, gen_out>>

NextStats == ApplyPrepareDocumentsStats

SpecStats == InitStats /\ [][NextStats]_vars

NextRank == DoSearchWithOptions \/ GenerateOpenAI \/ GenerateFromApi

SpecRank == InitRank /\ [][NextRank]_vars


(***************************************************************************)
(* Statistics and rank-mass claims.                                        *)
(***************************************************************************)
StatsStored == stats_pc = "stored" /\ Len(doc_stats.names) > 0
Generated == gen_out.path # "none"
StatNames == SeqToSet(doc_stats.names)
ShareNum(n) == doc_stats.stats[n].scaled_num
Weighted(n) == doc_stats.stats[n].score_weighted

RECURSIVE SumOver(_, _)
SumOver(f, set) ==
    IF set = {} THEN 0
    ELSE LET e == CHOOSE e \in set : TRUE IN f[e] + SumOver(f, set \ {e})

TotalShareNum == SumOver([n \in StatNames |-> ShareNum(n)], StatNames)

NamePos(n) == CHOOSE i \in 1..Len(doc_stats.names) : doc_stats.names[i] = n

\* The documents ranked before n: higher share, or equal share and earlier.
RankedBefore(n) ==
    {m \in StatNames : \/ ShareNum(m) > ShareNum(n)
                       \/ ShareNum(m) = ShareNum(n) /\ NamePos(m) < NamePos(n)}

MassBefore(n) == SumOver([m \in StatNames |-> ShareNum(m)], RankedBefore(n))

\* The target as a fraction of the total mass.
TargetFraction(t) == IF t[1] > t[2] THEN <<t[1], 100 * t[2]>> ELSE t

\* mass / scaled_den < target
StrictlyBelow(mass, t) ==
    ~RatGeq(mass, doc_stats.scaled_den, TargetFraction(t)[1], TargetFraction(t)[2])

IsTopDocument(n) == \A m \in StatNames : ShareNum(n) >= ShareNum(m)

\* C6: a result's text is forwarded to the generative model only if its
\* document is in the list get_accumulated_docs_by_rank_perc returned, and
\* nothing is forwarded when that list is empty, on both generation paths.
C6_OnlyListedDocumentsAreForwarded ==
    Generated =>
        /\ \A i \in gen_out.forwarded :
              raw_hits[i].document_name \in SeqToSet(gen_out.which_docs)
        /\ (Len(gen_out.which_docs) = 0 => gen_out.forwarded = {})

\* C7: the returned names are in descending share order and a document is
\* returned iff the mass of the documents ranked before it is strictly below
\* the target; empty stats give the empty list; a single document with target
\* 0.999 is returned.
C7_PrefixUntilTargetReached ==
    Generated =>
        LET ret == gen_out.which_docs
        IN  /\ \A i, j \in 1..Len(ret) :
                  i < j => ShareNum(ret[i]) >= ShareNum(ret[j]) /\ ret[i] # ret[j]
            /\ SeqToSet(ret) \subseteq StatNames
            /\ \A n \in StatNames :
                  n \in SeqToSet(ret) <=> StrictlyBelow(MassBefore(n), gen_out.target)
            /\ (Len(doc_stats.names) = 0 => ret = <<>>)
            /\ (Len(doc_stats.names) = 1 /\ gen_out.target = <<999, 1000>>
                    => ret = doc_stats.names)

\* C7 witness: shares 1.0 and 0.0001 with target 0.5 return the larger one
\* only, which was the second document of the stats.
C7_Witness ==
    /\ Generated
    /\ gen_out.target = <<1, 2>>
    /\ Len(doc_stats.names) = 2
    /\ gen_out.which_docs = <<doc_stats.names[2]>>
    /\ ShareNum(doc_stats.names[2]) = doc_stats.scaled_den
    /\ SmoothDen * ShareNum(doc_stats.names[1]) = doc_stats.scaled_den

\* C8 as stated: for non-empty stats the result contains the highest-scored
\* document for every target, target 0 included.
C8_AlwaysContainsTopDocument ==
    (Generated /\ Len(doc_stats.names) > 0) =>
        \E i \in 1..Len(gen_out.which_docs) : IsTopDocument(gen_out.which_docs[i])

\* C8 amended: the stop condition is tested before a document is appended,
\* so for non-empty stats the result starts with the highest-scored document
\* for every target above 0 and is empty for target 0.
C8_TopDocumentForPositiveTarget ==
    (Generated /\ Len(doc_stats.names) > 0) =>
        IF gen_out.target[1] > 0
        THEN Len(gen_out.which_docs) >= 1 /\ IsTopDocument(gen_out.which_docs[1])
        ELSE gen_out.which_docs = <<>>

\* C8 witness: three documents, a target below the smoothing floor, and only
\* the top document returned.
C8_Witness ==
    /\ Generated
    /\ Len(doc_stats.names) = 3
    /\ gen_out.target = <<1, 20000>>
    /\ Len(gen_out.which_docs) = 1


\* min_w and sum_w recomputed from the stored score_weighted values.
MinWeighted == CHOOSE v \in {Weighted(n) : n \in StatNames} :
                   \A n \in StatNames : v <= Weighted(n)
ShiftOfWeights == IF MinWeighted < 0 THEN 0 - MinWeighted ELSE MinWeighted
ShiftedSum == SumOver([n \in StatNames |-> Weighted(n) + ShiftOfWeights], StatNames)

\* The documents whose share the smoothing floor raised.
RaisedToFloor ==
    {n \in StatNames : SmoothDen * (Weighted(n) + ShiftOfWeights) < ShiftedSum}

\* C9 as stated: whenever sum_w > 0, the scaled shares of one query sum to at
\* most 1.
C9_SharesSumToAtMostOne ==
    (StatsStored /\ doc_stats.sum_w > 0) => TotalShareNum <= doc_stats.scaled_den

\* C9 amended: whenever sum_w > 0, the scaled shares sum to at least 1 and to
\* at most 1 plus the smoothing floor for every document raised to the floor.
C9_SharesSumToOnePlusFloors ==
    (StatsStored /\ doc_stats.sum_w > 0) =>
        /\ TotalShareNum >= doc_stats.scaled_den
        /\ TotalShareNum - doc_stats.scaled_den
              <= Cardinality(RaisedToFloor) * (doc_stats.scaled_den \div SmoothDen)

\* C9 witness: three documents, two of them raised to the floor, the shares
\* summing to more than 1.
C9_Witness ==
    /\ StatsStored
    /\ doc_stats.sum_w > 0
    /\ Len(doc_stats.names) = 3
    /\ Cardinality(RaisedToFloor) = 2
    /\ TotalShareNum > doc_stats.scaled_den

AllWeightedNonPositive == \A n \in StatNames : Weighted(n) <= 0
AllWeightedEqual == \A n, m \in StatNames : Weighted(n) = Weighted(m)
ShareIsOne(n) == ShareNum(n) = doc_stats.scaled_den
ShareIsFormula(n) ==
    /\ doc_stats.scaled_den = SmoothDen * ShiftedSum
    /\ ShareNum(n) = Max(ShiftedSum, SmoothDen * (Weighted(n) + ShiftOfWeights))

\* C10 as stated: if every score_weighted is <= 0 every document gets share
\* 1.0; otherwise every document gets max(floor, (score_weighted + min_w) /
\* sum_w).
C10_AllNonPositiveGivesOne ==
    StatsStored =>
        IF AllWeightedNonPositive
        THEN \A n \in StatNames : ShareIsOne(n)
        ELSE \A n \in StatNames : ShareIsFormula(n)

\* C10 amended: every document gets share 1.0 when all score_weighted values
\* are equal and <= 0 (which is when sum_w is 0); otherwise every document
\* gets max(floor, (score_weighted + min_w) / sum_w).
C10_EqualNonPositiveGivesOne ==
    StatsStored =>
        IF AllWeightedNonPositive /\ AllWeightedEqual
        THEN doc_stats.sum_w = 0 /\ \A n \in StatNames : ShareIsOne(n)
        ELSE doc_stats.sum_w > 0 /\ \A n \in StatNames : ShareIsFormula(n)

\* C10 witness: two documents with different score_weighted, both <= 0, one
\* of them at the floor.
C10_Witness ==
    /\ StatsStored
    /\ Len(doc_stats.names) = 2
    /\ AllWeightedNonPositive
    /\ ~AllWeightedEqual
    /\ \E n \in StatNames : ~ShareIsOne(n) /\ ShareIsFormula(n)


(***************************************************************************)
(* prepare_documents_stats as a function of the hit list.                  *)
(***************************************************************************)
Applied == stats_pc = "applied"
HitNames == {raw_hits[i].document_name : i \in 1..Len(raw_hits)}
HitIndexesOf(n) == {i \in 1..Len(raw_hits) : raw_hits[i].document_name = n}
HitPagesOf(n) == {raw_hits[i].page_number : i \in HitIndexesOf(n)}
HitScoreSumOf(n) == SumOver([i \in 1..Len(raw_hits) |-> raw_hits[i].score], HitIndexesOf(n))
IsAscending(xs) == \A i, j \in 1..Len(xs) : i < j => xs[i] < xs[j]

\* The entry of document n is the aggregate the claim describes; the mean
\* score_sum / hits is compared as a fraction.
EntryIsAggregateOf(n) ==
    LET e == doc_stats.stats[n]
    IN  /\ e.hits = Cardinality(HitIndexesOf(n))
        /\ IsAscending(e.pages)
        /\ SeqToSet(e.pages) = HitPagesOf(n)
        /\ e.pages_count = Len(e.pages)
        /\ e.score[1] * Cardinality(HitIndexesOf(n)) = HitScoreSumOf(n) * e.score[2]
        /\ e.score[2] > 0

\* C11: for every hit list, the empty one included, prepare_documents_stats
\* returns a map with one entry per distinct document name, holding its hit
\* count, its ascending distinct pages, their number and the mean score.
C11_StatsMapForEveryHitList ==
    Applied =>
        /\ ~doc_stats.err
        /\ SeqToSet(doc_stats.names) = HitNames
        /\ \A n \in HitNames : EntryIsAggregateOf(n)

\* The product score * hits * pages_count of document n, in halves.
HitProductOf(n) == HitScoreSumOf(n) * Cardinality(HitPagesOf(n))

\* C12: prepare_documents_stats fails whenever some document's product
\* score * hits * pages_count is <= 0, and a returned stats map never holds
\* a document with a non-positive product.
C12_NonPositiveProductFails ==
    Applied =>
        /\ (\E n \in HitNames : HitProductOf(n) <= 0) => doc_stats.err
        /\ ~doc_stats.err =>
              \A n \in SeqToSet(doc_stats.names) :
                  doc_stats.stats[n].score_sum * doc_stats.stats[n].pages_count > 0

\* C12 witness: two documents, one with a positive and one with a negative
\* product, and the call failed.
C12_Witness ==
    /\ Applied
    /\ doc_stats.err
    /\ \E n, m \in HitNames : HitProductOf(n) > 0 /\ HitProductOf(m) < 0


(***************************************************************************)
(* Metadata filter expressions evaluated against one document.             *)
(***************************************************************************)
\* The "operator" entries a filter expression may carry (None: no entry).
MatchOperatorPool ==
    {S("in"), S("eq"), S("ne"), S("gt"), S("lt"), S("ge"), S("le"), S("hse"),
     S("gte"), S("lte"), S("xx"), NoneV}

\* The "field" entries a filter expression may carry (None: no entry).
MatchFieldPool ==
    {D(<<<<"year", I(3)>>>>),
     D(<<<<"labels", S("k")>>>>),
     D(<<<<"labels", L(<<S("k")>>)>>>>),
     D(<<<<"type", S("ak")>>>>),
     D(<<<<"type", L(<<S("ak")>>)>>>>),
     D(<<<<"type", I(5)>>>>),
     D(<<<<"geo", D(<<<<"city", S("k")>>>>)>>>>),
     D(<<<<"zzz", S("k")>>>>),
     D(<<>>),
     NoneV}

\* The metadata_json values of the tested document.
MatchMetadataPool ==
    {NoneV,
     D(<<>>),
     D(<<<<"year", I(3)>>, <<"labels", L(<<S("k"), S("a")>>)>>,
         <<"type", S("ak")>>, <<"geo", D(<<<<"city", S("k")>>>>)>>>>),
     D(<<<<"year", I(5)>>, <<"labels", S("ak")>>,
         <<"type", L(<<S("ak")>>)>>, <<"geo", I(5)>>>>),
     D(<<<<"year", I(1)>>, <<"labels", D(<<<<"a", S("k")>>>>)>>,
         <<"type", I(5)>>, <<"geo", S("city")>>>>),
     D(<<<<"labels", L(<<S("a")>>)>>, <<"geo", S("ak")>>>>),
     D(<<<<"type", S("k")>>, <<"geo", D(<<<<"zzz", S("k")>>>>)>>>>)}

\* One document in the collection and one metadata filter in the query; the
\* expression is either evaluated on its own ("match") or by a whole query
\* ("call").
InitMatch ==
    /\ documents \in {<<Doc("m", "Sport", "sport/a", TRUE, md)>> :
                          md \in MatchMetadataPool}
    /\ search_params \in
          {[NoFilterParams EXCEPT !.metadata_filters = <<Expr(o, f)>>] :
               o \in MatchOperatorPool, f \in MatchFieldPool}
    /\ user_query = [present |-> TRUE, query_templates |-> {}]
    /\ search_pc \in {"match", "call"}
    /\ search_out = NoSearchOut
    /\ raw_hits = <<>>
    /\ stats_pc = "off"
    /\ doc_stats = NoDocStats
    /\ gen_out = NoGenOut

\* __is_document_covered_with_metadata_expression(document, expression)
ApplyIsDocumentCovered ==
    /\ search_pc = "match"
    /\ search_out' = [outcome |-> "matched",
                      covered |-> IsDocumentCoveredWithMetadataExpression(
                                      documents[1], search_params.metadata_filters[1])]
    /\ search_pc' = "done"
    /\ UNCHANGED <<documents, search_params, user_query, raw_hits, stats_pc,
                   doc_stats, gen_out>>

NextMatch == ApplyIsDocumentCovered \/ DoSearchWithOptions

SpecMatch == InitMatch /\ [][NextMatch]_vars


(***************************************************************************)
(* Metadata expression claims.                                             *)
(***************************************************************************)
Matched == search_out.outcome = "matched"
MatchExpression == search_params.metadata_filters[1]
MatchMetadata == documents[1].metadata_json
MetadataIsFilled == MatchMetadata # NoneV /\ Len(MatchMetadata.v) > 0
RecognizedOperators == {"in", "eq", "ne", "gt", "lt", "ge", "le", "hse"}
HasRecognizedOperator == MatchExpression.operator.t = "str" /\ MatchExpression.operator.v \in RecognizedOperators
HasField == MatchExpression.field # NoneV

\* C13: an expression with an operator of {in, eq, ne, gt, lt, ge, le, hse}
\* and a field passes validation, and its result is that operator's
\* comparison of the expression value with the document's metadata value.
C13_RecognizedOperatorsAreEvaluated ==
    (Matched /\ HasRecognizedOperator /\ HasField /\ MetadataIsFilled)
        => search_out.covered = IsProperlyMatchedExpressionWithMetadata(
               MatchExpression.operator.v, MatchExpression.field, MatchMetadata)

Malformed == ~HasRecognizedOperator \/ ~HasField
Called == search_pc = "done" /\ ~Matched

\* C14: a malformed expression (no operator, no field, or an operator outside
\* the recognized set) does not match any document, and the query that
\* carries it ends without an exception reaching the caller.
C14_MalformedExpressionNeverMatchesNorRaises ==
    Malformed => /\ Matched => search_out.covered = "F"
                 /\ Called => search_out.outcome # "error"

RECURSIVE KeyAbsentOnPath(_, _)
\* The key that the path requires at some level is not in the metadata at
\* that level; a metadata value that is not a map has no keys.
KeyAbsentOnPath(path, metadata) ==
    \/ metadata.t # "dict"
    \/ ~DictHas(metadata, path.v[1][1])
    \/ /\ path.v[1][2].t = "dict"
       /\ KeyAbsentOnPath(path.v[1][2], DictGet(metadata, path.v[1][1]))

RECURSIVE LeafComparison(_, _, _)
\* The comparison at the end of a path whose keys are all present.
LeafComparison(operator, path, metadata) ==
    IF path.v[1][2].t = "dict"
    THEN LeafComparison(operator, path.v[1][2], DictGet(metadata, path.v[1][1]))
    ELSE CheckExpressionOperatorValue(operator, path.v[1][2],
                                      DictGet(metadata, path.v[1][1]))

HasPath == HasField /\ Len(MatchExpression.field.v) > 0
Validated == IsProperExpression(MatchExpression)

\* C15: matching a field path returns false, without raising, when a key of
\* the path is absent at its level (a metadata value that is not a map
\* included); when every key is present the result is the leaf comparison.
C15_AbsentKeyIsFalseElseLeafComparison ==
    (Matched /\ Validated /\ HasPath /\ MetadataIsFilled)
        => search_out.covered =
               IF KeyAbsentOnPath(MatchExpression.field, MatchMetadata) THEN "F"
               ELSE LeafComparison(MatchExpression.operator.v,
                                   MatchExpression.field, MatchMetadata)

RECURSIVE ExpressionLeaf(_)
\* The expression value at the end of a path.
ExpressionLeaf(path) ==
    IF path.v[1][2].t = "dict" THEN ExpressionLeaf(path.v[1][2]) ELSE path.v[1][2]

RECURSIVE MetadataLeaf(_, _)
\* The metadata value at the end of a path whose keys are all present.
MetadataLeaf(path, metadata) ==
    IF path.v[1][2].t = "dict"
    THEN MetadataLeaf(path.v[1][2], DictGet(metadata, path.v[1][1]))
    ELSE DictGet(metadata, path.v[1][1])

\* A list's elements; a scalar is the one element of a singleton list.
ElementsOf(x) == IF x.t = "list" THEN x.v ELSE <<x>>
ElementsIntersect(a, b) == \E i \in 1..Len(ElementsOf(a)), j \in 1..Len(ElementsOf(b)) : PyEq(ElementsOf(a)[i], ElementsOf(b)[j])

HseEvaluated ==
    /\ Matched /\ MetadataIsFilled /\ HasPath
    /\ MatchExpression.operator = S("hse")
    /\ ~KeyAbsentOnPath(MatchExpression.field, MatchMetadata)

HseSymmetricOn(a, b) ==
    /\ search_out.covered = CheckExpressionOperatorValue("hse", b, a)
    /\ search_out.covered = IF a.t = "dict" \/ b.t = "dict" THEN "F"
                            ELSE PyBool(ElementsIntersect(a, b))

\* C16: for hse, expression value a against metadata value b gives the same
\* boolean as b against a, which is whether their element sets intersect
\* (a scalar counting as a singleton list), and false when either is a map.
C16_HseIsSymmetricIntersection ==
    HseEvaluated => HseSymmetricOn(ExpressionLeaf(MatchExpression.field),
                                   MetadataLeaf(MatchExpression.field, MatchMetadata))


(***************************************************************************)
(* Template matching applied to lists of documents.                        *)
(***************************************************************************)
MaxTemplateDocs == 2

DocV == Doc("v", "Sport", "sport/a", TRUE,
            D(<< <<"type", S("event")>>,
                 <<"date", D(<< <<"end", S("not-a-date")>> >>)>>,
                 <<"year", S("2020")>> >>))
DocW == Doc("w", "Sport", "sport/a", TRUE, NoneV)
DocE == Doc("e", "Sport", "sport/a", TRUE,
            D(<< <<"type", S("event")>>, <<"year", S("1990")>> >>))
DocT == Doc("t", "Sport", "sport/a", TRUE,
            D(<< <<"type", S("event")>>,
                 <<"date", D(<< <<"end", S("today")>> >>)>>,
                 <<"year", S("abc")>> >>))
DocN == Doc("n", "News", "news/a", TRUE,
            D(<< <<"type", S("address")>>, <<"year", I(2020)>>,
                 <<"geo", S("k")>> >>))

DocA == Doc("a", "News", "news/a", TRUE,
            D(<< <<"type", S("address")>>,
                 <<"date", D(<< <<"end", S("2000-01-01")>> >>)>> >>))
DocO == Doc("o", "News", "news/a", TRUE,
            D(<< <<"type", S("other")>>, <<"date", S("not-a-date")>> >>))

\* The Document rows the lists are drawn from.
TemplateDocPool ==
    <<DocX, DocY, DocZ, DocU, DocV, DocW, DocE, DocT, DocN, DocA, DocO>>

TemplateDocLists ==
    {[i \in 1..Len(q) |-> TemplateDocPool[q[i]]] :
         q \in IncreasingSeqs(Len(TemplateDocPool), MaxTemplateDocs) \ {<<>>}}

\* The template ids a request names: one template, template 2 and another,
\* or templates 1 and 4, whose connectors name different types.
TemplateMatchIds == {1, 2, 4, 6, 7, 8, 9, 10}
TemplateMatchLists ==
    {<<i>> : i \in TemplateMatchIds} \cup {<<2, i>> : i \in TemplateMatchIds \ {2}}
        \cup {<<1, 4>>, <<4, 1>>}

\* The documents are either handed to filter_documents as they are ("filter"),
\* selected first by __get_documents_based_on_templates ("connect"), or
\* checked one by one by the grammar ("grammar").
InitTemplate ==
    /\ documents \in TemplateDocLists
    /\ search_params \in {[NoFilterParams EXCEPT !.templates = ids] :
                              ids \in TemplateMatchLists}
    /\ user_query = [present |-> TRUE, query_templates |-> {}]
    /\ search_pc \in {"filter", "connect", "grammar"}
    /\ search_out = NoSearchOut
    /\ raw_hits = <<>>
    /\ stats_pc = "off"
    /\ doc_stats = NoDocStats
    /\ gen_out = NoGenOut

\* The names of a list of documents, as a set.
NamesOf(docs) == {docs[i].name : i \in 1..Len(docs)}

\* QueryTemplateController.filter_documents(documents, query_templates)
FilterDocumentsResult(f) == [outcome |-> "filtered", err |-> f.err, names |-> NamesOf(f.docs)]

ApplyFilterDocuments ==
    /\ search_pc = "filter"
    /\ search_out' = FilterDocumentsResult(FilterDocuments(documents,
                         PrepareTemplatesForUser(UserOrganisation, search_params.templates)))
    /\ search_pc' = "done"
    /\ UNCHANGED <<documents, search_params, user_query, raw_hits, stats_pc,
                   doc_stats, gen_out>>

\* __get_documents_based_on_templates(query_templates, collection, True)
TemplateDocumentsResult(r) == [outcome |-> "connected", err |-> r.err, names |-> r.names]

ApplyGetDocumentsBasedOnTemplates ==
    /\ search_pc = "connect"
    /\ search_out' = TemplateDocumentsResult(GetDocumentsBasedOnTemplates(documents,
                         PrepareTemplatesForUser(UserOrganisation, search_params.templates)))
    /\ search_pc' = "done"
    /\ UNCHANGED <<documents, search_params, user_query, raw_hits, stats_pc,
                   doc_stats, gen_out>>

\* QueryTemplatesSearchGrammar.use_document_in_sse(document, True) called on
\* each document by itself: the documents it accepted, and whether a call
\* raised.
GrammarCheckResult(docs) == [outcome |-> "checked", err |-> \E i \in 1..Len(docs) : GrammarUseDocumentInSse(docs[i]) = "E", names |-> NamesOf(SelectSeq(docs, LAMBDA d : GrammarUseDocumentInSse(d) = "T"))]

ApplyUseDocumentInSse ==
    /\ search_pc = "grammar"
    /\ search_out' = GrammarCheckResult(documents)
    /\ search_pc' = "done"
    /\ UNCHANGED <<documents, search_params, user_query, raw_hits, stats_pc,
                   doc_stats, gen_out>>

NextTemplate ==
    ApplyFilterDocuments \/ ApplyGetDocumentsBasedOnTemplates \/ ApplyUseDocumentInSse

SpecTemplate == InitTemplate /\ [][NextTemplate]_vars


(***************************************************************************)
(* Template matching claims.                                               *)
(***************************************************************************)
Filtered == search_out.outcome = "filtered"
Connected == search_out.outcome = "connected"
RequestedTemplates == PrepareTemplatesForUser(UserOrganisation, search_params.templates)
DocumentType(d) == PyGet(d.metadata_json, "type", NoneV)[2]

\* The search action of the document's type raises.
GrammarActionRaises(d) ==
    /\ d.metadata_json.t = "dict"
    /\ Len(SearchActionsOfType(DocumentType(d))[2]) > 0
    /\ EndDateIsOlderThanToday(d) = "E"

GrammarCheckRaises(d) == GrammarUseDocumentInSse(d) = "E" \/ GrammarActionRaises(d)

\* A rule applied to a present string value raises inside eval.
EvalRaises(query_template, d) ==
    /\ d.metadata_json.t = "dict"
    /\ query_template.data_filter_expressions # NoneV
    /\ \E i \in 1..Len(query_template.data_filter_expressions.v) :
          LET var1 == query_template.data_filter_expressions.v[i][1]
              expr1 == query_template.data_filter_expressions.v[i][2]
          IN  /\ expr1 = RuleYearGe2000
              /\ DictHas(d.metadata_json, var1)
              /\ DictGet(d.metadata_json, var1).t = "str"
              /\ ~IntOf(DictGet(d.metadata_json, var1).v)[1]

RuleEvaluationRaises(d) ==
    \E i \in 1..Len(RequestedTemplates) :
        \/ FiltererUseDocumentInSse(RequestedTemplates[i], d) = "E"
        \/ EvalRaises(RequestedTemplates[i], d)

\* C17: a document for which the grammar check or the evaluation of a rule
\* raises is never in the list filter_documents returns.
C17_RaisingDocumentIsNotReturned ==
    (Filtered /\ ~search_out.err)
        => \A i \in 1..Len(documents) :
              (GrammarCheckRaises(documents[i]) \/ RuleEvaluationRaises(documents[i]))
                  => documents[i].name \notin search_out.names

\* The document passes the grammar check and every requested template.
QualifiesAlone(d) ==
    /\ GrammarUseDocumentInSse(d) = "T"
    /\ AllTemplatesAccept(RequestedTemplates, d) = "T"

\* C18: filter_documents returns a list whatever happens while one document
\* is checked, and the list holds every document of the input that qualifies.
C18_FilterDocumentsAlwaysReturnsAList ==
    Filtered => /\ ~search_out.err
                /\ search_out.names = {documents[i].name : i \in {j \in 1..Len(documents) : QualifiesAlone(documents[j])}}

\* The (rule, value) pairs of a template's rules whose metadata value is
\* present in the document: a rule on a key, or on a key below a key.
PresentRules(opts, metadata) ==
    {<<opts[i][2], DictGet(metadata, opts[i][1])>> :
        i \in {j \in 1..Len(opts) : /\ opts[j][2].t = "str"
                                    /\ DictHas(metadata, opts[j][1])}}
    \cup
    UNION {{<<opts[i][2].v[k][2], DictGet(DictGet(metadata, opts[i][1]), opts[i][2].v[k][1])>> :
               k \in {l \in 1..Len(opts[i][2].v) :
                         DictHas(DictGet(metadata, opts[i][1]), opts[i][2].v[l][1])}} :
           i \in {j \in 1..Len(opts) : /\ opts[j][2].t = "dict"
                                       /\ DictHas(metadata, opts[j][1])
                                       /\ DictGet(metadata, opts[j][1]).t = "dict"}}

RuleIsTrue(pair) == pair[1].t = "str" /\ pair[2].t = "str" /\ EvalRule(pair[1], pair[2])

OneTemplateWithRules ==
    /\ Len(RequestedTemplates) = 1
    /\ RequestedTemplates[1].data_filter_expressions # NoneV
    /\ Len(RequestedTemplates[1].data_filter_expressions.v) > 0

\* C19: under a template with rules, a document with non-empty metadata that
\* passed the grammar check is accepted iff every rule whose value is present
\* in the document is true; a document lacking every referenced value is
\* accepted.
C19_AbsentValuesAreSkipped ==
    (Filtered /\ ~search_out.err /\ OneTemplateWithRules)
        => \A i \in 1..Len(documents) :
              GrammarUseDocumentInSse(documents[i]) = "T"
                  => (documents[i].name \in search_out.names
                        <=> \A pair \in PresentRules(
                                RequestedTemplates[1].data_filter_expressions.v,
                                documents[i].metadata_json) : RuleIsTrue(pair))

EventConnectorOnly == search_params.templates = <<1>>
IsEventDocument(d) == d.use_in_search /\ d.metadata_json.t = "dict" /\ DocumentType(d) = S("event")
EventDocuments == {documents[i].name : i \in {j \in 1..Len(documents) : IsEventDocument(documents[j])}}

\* The day number of the document's date.end: <<readable, day>>.
EndDay(d) ==
    IF ~DictHas(d.metadata_json, "date") THEN <<FALSE, 0>>
    ELSE IF DictGet(d.metadata_json, "date").t # "dict" THEN <<FALSE, 0>>
    ELSE IF ~DictHas(DictGet(d.metadata_json, "date"), "end") THEN <<FALSE, 0>>
    ELSE IF DictGet(DictGet(d.metadata_json, "date"), "end").t # "str" THEN <<FALSE, 0>>
    ELSE IF IsoParse(DictGet(DictGet(d.metadata_json, "date"), "end").v) < 0 THEN <<FALSE, 0>>
    ELSE <<TRUE, IsoParse(DictGet(DictGet(d.metadata_json, "date"), "end").v)>>
HasNoEnd(d) ==
    \/ ~DictHas(d.metadata_json, "date")
    \/ /\ DictGet(d.metadata_json, "date").t = "dict"
       /\ ~DictHas(DictGet(d.metadata_json, "date"), "end")

\* C20 as stated: the template {"type": "event"} without rules admits every
\* use_in_search document of type event, whatever its date metadata.
C20_EveryEventDocumentIsAdmitted ==
    (Connected /\ EventConnectorOnly)
        => /\ ~search_out.err
           /\ search_out.names = EventDocuments

\* C20: the template {"type": "event"} without rules admits only
\* use_in_search documents of type event; among them every document whose
\* date.end is today or later, and none whose date.end is earlier than today
\* or that has no date.end.
C20_EventDocumentsWithCurrentEndDate ==
    (Connected /\ EventConnectorOnly)
        => /\ ~search_out.err
           /\ search_out.names \subseteq EventDocuments
           /\ \A i \in 1..Len(documents) :
                 IsEventDocument(documents[i]) =>
                     /\ (EndDay(documents[i])[1] /\ EndDay(documents[i])[2] >= Today)
                            => documents[i].name \in search_out.names
                     /\ (EndDay(documents[i])[1] /\ EndDay(documents[i])[2] < Today)
                            => documents[i].name \notin search_out.names
                     /\ HasNoEnd(documents[i])
                            => documents[i].name \notin search_out.names

\* C20: a document ending today is admitted next to one that ended earlier,
\* which is not.
C20_Witness ==
    /\ Connected /\ EventConnectorOnly
    /\ search_out.names = {"t"}
    /\ "y" \in EventDocuments


(***************************************************************************)
(* Queries that name templates, with the hits the vector search holds.     *)
(***************************************************************************)
\* The ids a request may name: templates of the user's organisation, one of
\* another organisation (3), an unknown id, a malformed one and one that is
\* not a scalar.
PromptTemplateIdPool ==
    <<1, 2, 3, 4, 5, 99, MalformedTemplateId, NonScalarTemplateId>>

PromptHitLists ==
    {<<>>, <<Hit("x", 1, 4)>>, <<Hit("z", 1, 1)>>, <<Hit("x", 1, 4), Hit("z", 1, 1)>>}

InitPrompts ==
    /\ documents = Catalog
    /\ search_params \in
          {[NoFilterParams EXCEPT
                !.templates = [i \in 1..Len(q) |-> PromptTemplateIdPool[q[i]]],
                !.only_template_documents = o,
                !.use_and_operator = a] :
               q \in DistinctSeqs(Len(PromptTemplateIdPool), MaxTemplates),
               o \in BOOLEAN, a \in BOOLEAN}
    /\ user_query \in {[present |-> b, query_templates |-> {}] : b \in BOOLEAN}
    /\ search_pc = "call"
    /\ search_out = NoSearchOut
    /\ raw_hits \in PromptHitLists
    /\ stats_pc = "off"
    /\ doc_stats = NoDocStats
    /\ gen_out = NoGenOut

NextPrompts == DoSearchWithOptions

SpecPrompts == InitPrompts /\ [][NextPrompts]_vars


(***************************************************************************)
(* Template prompt and template ownership claims.                          *)
(***************************************************************************)
Returned == search_pc = "done" /\ search_out.outcome \in {"searched", "empty", "error"}

\* The template row with the id, if it belongs to the user's organisation.
ResolvesForUser(id) ==
    \E i \in 1..Len(QueryTemplates) :
        QueryTemplates[i].id = id /\ QueryTemplates[i].organisation = UserOrganisation
RowOf(id) == QueryTemplates[CHOOSE i \in 1..Len(QueryTemplates) : QueryTemplates[i].id = id]
HasPrompt(id) ==
    /\ ResolvesForUser(id)
    /\ RowOf(id).system_prompt # NoneV
    /\ RowOf(id).system_prompt.v \notin {"", " ", "  "}

RECURSIVE PromptsInRequestOrder(_)
PromptsInRequestOrder(ids) ==
    IF Len(ids) = 0 THEN <<>>
    ELSE (IF HasPrompt(ids[1]) THEN <<RowOf(ids[1]).system_prompt.v>> ELSE <<>>)
         \o PromptsInRequestOrder(Tail(ids))

\* C21: the returned template_prompts are the non-empty system prompts of the
\* resolved templates in request order, whether or not the search found
\* anything.
C21_PromptsOfResolvedTemplates ==
    (Returned /\ search_out.outcome # "error")
        => search_out.template_prompts = PromptsInRequestOrder(search_params.templates)


(***************************************************************************)
(* Percentage claims.                                                      *)
(***************************************************************************)
TargetAbove(n) == gen_out.target[1] > n * gen_out.target[2]
Hundredth(t) == <<t[1], t[2] * 100>>

\* C22 as stated: for every target t > 1 the selection for t is the selection
\* for t / 100.
C22_EveryTargetAboveOneIsAPercentage ==
    (Generated /\ TargetAbove(1))
        => gen_out.which_docs = GetAccumulatedDocsByRankPerc(doc_stats, Hundredth(gen_out.target))

\* C22: for every target t with 1 < t <= 100 the selection for t is the
\* selection for t / 100.
C22_TargetUpToHundredIsAPercentage ==
    (Generated /\ TargetAbove(1) /\ ~TargetAbove(100))
        => gen_out.which_docs = GetAccumulatedDocsByRankPerc(doc_stats, Hundredth(gen_out.target))

\* C22: target 40 stops before the last of several documents, as 0.40 does.
C22_Witness ==
    /\ Generated
    /\ gen_out.target = <<40, 1>>
    /\ Len(gen_out.which_docs) > 0
    /\ Len(gen_out.which_docs) < Len(doc_stats.names)


(***************************************************************************)
(* Side effects of filter resolution.                                      *)
(***************************************************************************)
ResolvedRequestedIds == {id \in SeqToSet(search_params.templates) : ResolvesForUser(id)}

ReturnsBeforeTemplates ==
    /\ Len(search_params.relative_path_contains) > 0
    /\ search_params.use_and_operator
    /\ \A i \in 1..Len(documents) :
          documents[i].use_in_search =>
              \A j \in 1..Len(search_params.relative_path_contains) :
                  ~StrContains(search_params.relative_path_contains[j],
                               documents[i].relative_path)

GeneratedFromApi == Generated /\ gen_out.path = "api"
IsIntegerPercent(t) == t[2] = 1 /\ 1 <= t[1] /\ t[1] <= 100

\* The documents whose accumulated share stays below p / 100.
SelectionForMass(p) == AccumulateDocs(SortedDocNames(doc_stats), doc_stats, <<p, 100>>)

\* C24: with an integer percentage_rank_mass p, 1 <= p <= 100, the API path
\* selects the documents of the target mass p / 100.
C24_IntegerRankMassIsAPercentage ==
    (GeneratedFromApi /\ IsIntegerPercent(gen_out.target))
        => gen_out.which_docs = SelectionForMass(gen_out.target[1])


(***************************************************************************)
(* Several templates.                                                      *)
(***************************************************************************)
\* The document's metadata equals the template's data_connector on every
\* connector key.
ConnectorMatches(d, query_template) == MatchesDataFilter(d, query_template.data_connector.v)

AcceptedBy(d, query_template) ==
    /\ ConnectorMatches(d, query_template)
    /\ GrammarUseDocumentInSse(d) = "T"
    /\ FiltererUseDocumentInSse(query_template, d) = "T"

AcceptedByAll ==
    {documents[i].name : i \in {j \in 1..Len(documents) :
        /\ documents[j].use_in_search
        /\ \A k \in 1..Len(RequestedTemplates) :
              AcceptedBy(documents[j], RequestedTemplates[k])}}

\* C25: the documents admitted by template filtering are those accepted by
\* every supplied template: connector, grammar check and rules.
C25_AdmittedAreAcceptedByAllTemplates ==
    (Connected /\ ~search_out.err) => search_out.names = AcceptedByAll


(***************************************************************************)
(* The grammar check by document type.                                     *)
(***************************************************************************)
Checked == search_out.outcome = "checked"
HasType(d, type) == d.metadata_json.t = "dict" /\ DocumentType(d) = S(type)

\* C26: the grammar check rejects an event document with end date d iff d
\* is before today, and accepts every address and every other document.
C26_EventsByEndDateOthersAlways ==
    Checked
        => \A i \in 1..Len(documents) :
              /\ (HasType(documents[i], "event") /\ EndDay(documents[i])[1])
                     => (documents[i].name \notin search_out.names
                            <=> EndDay(documents[i])[2] < Today)
              /\ (HasType(documents[i], "address") \/ HasType(documents[i], "other"))
                     => documents[i].name \in search_out.names

\* C26: an event ending today and an address with an end date in the past
\* were both accepted.
C26_Witness ==
    /\ Checked
    /\ NamesOf(documents) = {"t", "a"}
    /\ search_out.names = {"t", "a"}


(***************************************************************************)
(* Templates of another organisation, unknown and malformed ids.           *)
(***************************************************************************)
OwnTemplateIds == SelectSeq(search_params.templates, ResolvesForUser)
SkippedTemplateIds == {id \in SeqToSet(search_params.templates) : ~ResolvesForUser(id)}

\* The same request without the ids that do not resolve for the user.
WithOwnTemplatesOnly ==
    SearchWithOptions(documents, [search_params EXCEPT !.templates = OwnTemplateIds],
                      user_query.present)

ForeignPrompts ==
    {QueryTemplates[i].system_prompt.v :
        i \in {j \in 1..Len(QueryTemplates) :
                  /\ QueryTemplates[j].organisation # UserOrganisation
                  /\ QueryTemplates[j].system_prompt # NoneV}}

SameAsCall(r) ==
    /\ search_out.outcome = r.outcome
    /\ search_out.metadata_filter = MilvusMetadataFilter(r.search_in_documents, r.relative_paths)
    /\ search_out.template_prompts = ReturnedPrompts(r, SearchResults(raw_hits, documents, r))
    /\ user_query.query_templates = r.linked

\* C27: the ids of templates of another organisation, unknown ids and
\* malformed ids change nothing: the call does not fail, admits the documents,
\* returns the prompts and links the templates of the request without them.
C27_ForeignAndUnknownTemplatesContributeNothing ==
    Returned
        => /\ search_out.outcome # "error"
           /\ SameAsCall(WithOwnTemplatesOnly)
           /\ user_query.query_templates \cap SkippedTemplateIds = {}
           /\ SeqToSet(search_out.template_prompts) \cap ForeignPrompts = {}


(***************************************************************************)
(* DBTextSearchController.get_texts: the DocumentPageText rows of the hits *)
(* with the scores of the vector search.                                   *)
(***************************************************************************)
MaxTextHits == 3

TextRow(id, document_name, page_number) ==
    [id |-> id, document_name |-> document_name, page_number |-> page_number]

\* The DocumentPageText rows the text ids of the index point to.
TextStore == {TextRow(1, "x", 1), TextRow(2, "x", 2), TextRow(3, "y", 1)}
TextIds == {1, 2, 3}

TextHit(external_text_id, score) == [external_text_id |-> external_text_id, score |-> score]

\* query_results: hits on distinct chunks, best first as far as the scores
\* go (score in halves).
TextHitLists ==
    UNION {{[i \in 1..k |-> TextHit(q[i], sc[i])] :
               q \in {f \in [1..k -> TextIds] : \A i, j \in 1..k : i # j => f[i] # f[j]},
               sc \in {g \in [1..k -> {1, 4}] : \A i, j \in 1..k : i < j => g[i] >= g[j]}} :
           k \in 0..MaxTextHits}

\* Lines 638-642 of search_with_options.
TextsIds(query_results) == [i \in 1..Len(query_results) |-> query_results[i].external_text_id]
TextsScores(query_results) == [i \in 1..Len(query_results) |-> query_results[i].score]

\* DocumentPageText.objects.filter(id__in=texts_ids): the rows of the store
\* with one of the ids, in an order the query does not fix (the model has no
\* Meta.ordering and the query no order_by).
DocumentPagesOrders(store, texts_ids) ==
    LET found == {row \in store : row.id \in SeqToSet(texts_ids)}
    IN  {q \in [1..Cardinality(found) -> found] :
            \A i, j \in 1..Cardinality(found) : i # j => q[i] # q[j]}

\* Lines 1329-1337: the loop over enumerate(document_pages); the entry keeps
\* the id of its row.
GetTexts(document_pages, texts_scores) ==
    [idx \in 1..Len(document_pages) |->
        [text_id |-> document_pages[idx].id,
         document_name |-> document_pages[idx].document_name,
         page_number |-> document_pages[idx].page_number,
         score |-> texts_scores[idx]]]

GetTextsResult(doc_results) == [outcome |-> "texts", doc_results |-> doc_results]

\* Hits of the vector search, on chunks of which the store holds some or all.
InitTexts ==
    /\ documents = Catalog
    /\ search_params = NoFilterParams
    /\ user_query = [present |-> TRUE, query_templates |-> {}]
    /\ search_pc = "texts"
    /\ search_out = NoSearchOut
    /\ raw_hits \in TextHitLists
    /\ stats_pc = "off"
    /\ doc_stats = NoDocStats
    /\ gen_out = NoGenOut

\* textual_controller.get_texts(texts_ids, texts_scores, surrounding_chunks=2)
ApplyGetTexts ==
    /\ search_pc = "texts"
    /\ \E store \in SUBSET TextStore :
          \E document_pages \in DocumentPagesOrders(store, TextsIds(raw_hits)) :
              search_out' = GetTextsResult(GetTexts(document_pages, TextsScores(raw_hits)))
    /\ search_pc' = "done"
    /\ UNCHANGED <<documents, search_params, user_query, raw_hits, stats_pc,
                   doc_stats, gen_out>>

NextTexts == ApplyGetTexts

SpecTexts == InitTexts /\ [][NextTexts]_vars


(***************************************************************************)
(* Scores of the retrieved chunks.                                         *)
(***************************************************************************)
TextsRetrieved == search_out.outcome = "texts"

\* C28: the entry built for chunk texts_ids[i] carries score texts_scores[i].
C28_EntryCarriesTheScoreOfItsChunk ==
    TextsRetrieved
        => \A k \in 1..Len(search_out.doc_results) :
              \A i \in 1..Len(raw_hits) :
                  raw_hits[i].external_text_id = search_out.doc_results[k].text_id
                      => search_out.doc_results[k].score = raw_hits[i].score


(***************************************************************************)
(* Documents that are not to be searched.                                  *)
(***************************************************************************)
UsedInSearch(name) ==
    \E i \in 1..Len(documents) : documents[i].name = name /\ documents[i].use_in_search

\* C29: every name the categories, relative_path_contains, templates and
\* metadata_filters derive from the catalog is the name of a use_in_search
\* document, and so is every name passed to the vector search that the
\* request did not list itself.
C29_OnlyUseInSearchDocumentsAreAdmitted ==
    search_pc = "done"
        => /\ \A n \in CategoryDocs \cup PathContainsDocs \cup TemplateDocs \cup MetadataDocs :
                 UsedInSearch(n)
           /\ Searched
                 => \A n \in search_out.metadata_filter.filenames \ ExplicitDocs :
                       UsedInSearch(n)


(***************************************************************************)
(* only_template_documents.                                                *)
(***************************************************************************)
\* C30: with only_template_documents and a requested template that
\* resolved, the vector search is restricted to documents the templates
\* admit, under either operator.
C30_OnlyTemplateDocumentsAreSearched ==
    (Searched /\ OnlyTemplatesActive)
        => /\ search_out.metadata_filter.has_filenames
           /\ search_out.metadata_filter.filenames \subseteq TemplateDocs

====
